---------------------------- MODULE Spec2Model ----------------------------
(***************************************************************************)
(* A model of the Picture library (src/lib/Picture.ts, second half: the    *)
(* version that imports ./common.ts, ./Comparator.ts and ./Pixel.ts) and   *)
(* of the Comparator in its two versions: src/unnamed/part_007, which      *)
(* Picture works with, and src/lib/Comparator.ts.                          *)
(*                                                                         *)
(* A Uint8ClampedArray is an entry of `heap`: an array identity mapped to  *)
(* a sequence of bytes, so that two pictures sharing one array is a state  *)
(* the model can be in.  A Picture is a record [width, height, data] whose *)
(* data field is an array identity.  JavaScript numbers are modelled as    *)
(* exact rationals <<n, d>> (d > 0, lowest terms); a store into a          *)
(* Uint8ClampedArray is ToUint8Clamp: round to nearest, ties to even,      *)
(* saturate to 0..255.  Where the code computes a number with inexact      *)
(* double operations and the exact number is halfway between two integers, *)
(* the store gives either of the two (StoresOfDouble).                     *)
(***************************************************************************)
EXTENDS Integers, Sequences, FiniteSets, TLC

VARIABLES
  heap,   \* array identity -> sequence of bytes (the live Uint8ClampedArrays)
  a,      \* the picture the client calls methods on (image / a / main / picture)
  b,      \* the client's second picture (b / block / topLayer)
  arg,    \* identity of the array the client handed to the constructor (0: none)
  call,   \* the last call: its name and arguments
  out,    \* the Picture the last call returned (NoPicture: none)
  ret,    \* the non-Picture value the last call returned (<<>>: none)
  err,    \* the message of the Error the last call threw ("none": it returned)
  depth   \* how many results the client has gone on to use as its picture

vars == <<heap, a, b, arg, call, out, ret, err, depth>>

---------------------------------------------------------------------------
(* Program constants (common.ts, kept at the end of src/lib/Kernel.ts).      *)
CHANNELS == 4
NO_ALPHA_CHANNELS == 3
MAX_PIXEL == 255
MIN_PIXEL == 0
DEFAULT_ALPHA == 255

(* The value `undefined` where the code returns or stores it in a list of  *)
(* numbers; no index or channel is negative.                               *)
Undefined == -1

(* Bounds of the model.                                                    *)
MaxDim == 3      \* largest width and height of a picture the client builds
MaxDepth == 1    \* how many times the client feeds a result back in
MaxKernel == 5   \* largest kernel width and height findCoords is asked about
MaxOffset == 1   \* largest offset the client merges or masks at
MaxList == 2     \* longest list of pixels the client builds entry by entry

---------------------------------------------------------------------------
(* Arithmetic helpers.                                                     *)

Abs(x) == IF x < 0 THEN -x ELSE x

Min(x, y) == IF x < y THEN x ELSE y

RECURSIVE GCD(_, _)
GCD(x, y) == IF y = 0 THEN x ELSE GCD(y, x % y)

(* A JavaScript number as an exact rational in lowest terms.               *)
Norm(n, d) ==
  LET g == GCD(Abs(n), Abs(d))
      s == IF d < 0 THEN -1 ELSE 1
  IN  <<s * (n \div g), s * (d \div g)>>

Num(n) == <<n, 1>>

RAdd(x, y) ==
  LET g == GCD(x[2], y[2])
  IN  Norm(x[1] * (y[2] \div g) + y[1] * (x[2] \div g), (x[2] \div g) * y[2])

RNeg(x) == <<-x[1], x[2]>>

RSub(x, y) == RAdd(x, RNeg(y))

RMul(x, y) ==
  LET g1 == GCD(Abs(x[1]), y[2])
      g2 == GCD(Abs(y[1]), x[2])
  IN  Norm((x[1] \div g1) * (y[1] \div g2), (x[2] \div g2) * (y[2] \div g1))

(* x / y for y # 0.                                                        *)
RDiv(x, y) == RMul(x, Norm(y[2], y[1]))

RLess(x, y) == x[1] * y[2] < y[1] * x[2]

RAbs(x) == <<Abs(x[1]), x[2]>>

(* ToUint8Clamp of ECMAScript, the conversion of every store into a         *)
(* Uint8ClampedArray: NaN (here <<0, 0>>) and negatives give 0, values     *)
(* above 255 give 255, others round to nearest with ties to even.          *)
ToUint8Clamp(x) ==
  IF x[1] <= 0 THEN 0
  ELSE IF x[1] >= MAX_PIXEL * x[2] THEN MAX_PIXEL
  ELSE LET f == x[1] \div x[2]
           r == x[1] % x[2]
       IN  IF 2 * r < x[2] THEN f
           ELSE IF 2 * r > x[2] THEN f + 1
           ELSE IF f % 2 = 0 THEN f ELSE f + 1

(* new Uint8ClampedArray(list) of a list of JavaScript numbers.            *)
RECURSIVE ClampAll(_)
ClampAll(nums) ==
  IF nums = <<>> THEN <<>>
  ELSE <<ToUint8Clamp(Head(nums))>> \o ClampAll(Tail(nums))

(* The bytes that storing a number computed with inexact double           *)
(* operations (a division by 255, a product or a quotient of such numbers) *)
(* can give, x being the number the expression has in exact arithmetic.    *)
(* The double is off x by a rounding error far below the distance of any   *)
(* such x to a number halfway between two integers, unless x is such a     *)
(* number itself: there the double falls below it, on it, or above it,     *)
(* and the store gives the integer below or the integer above.             *)
StoresOfDouble(x) ==
  IF x[1] > 0 /\ x[1] < MAX_PIXEL * x[2] /\ 2 * (x[1] % x[2]) = x[2]
  THEN {x[1] \div x[2], (x[1] \div x[2]) + 1}
  ELSE {ToUint8Clamp(x)}

(* The arrays that storing the numbers nums, computed so, can give.        *)
RECURSIVE StoredArrays(_)
StoredArrays(nums) ==
  IF nums = <<>> THEN {<<>>}
  ELSE { <<v>> \o rest : v \in StoresOfDouble(Head(nums)),
                         rest \in StoredArrays(Tail(nums)) }

(* The bytes of an array as numbers.                                       *)
RECURSIVE Nums(_)
Nums(bytes) ==
  IF bytes = <<>> THEN <<>> ELSE <<Num(Head(bytes))>> \o Nums(Tail(bytes))

RECURSIVE Flatten(_)
Flatten(rows) == IF rows = <<>> THEN <<>> ELSE Head(rows) \o Flatten(Tail(rows))

RECURSIVE Reverse(_)
Reverse(s) == IF s = <<>> THEN <<>> ELSE Append(Reverse(Tail(s)), Head(s))

---------------------------------------------------------------------------
(* The heap of arrays.                                                     *)

NoPicture == [width |-> 0, height |-> 0, data |-> 0]

(* The identity a newly allocated array gets: the least one not live.      *)
Alloc(h) == CHOOSE i \in 1..(Cardinality(DOMAIN h) + 1) :
              /\ i \notin DOMAIN h
              /\ \A j \in 1..(i - 1) : j \in DOMAIN h

(* The heap with a new array of the given content, and its identity.       *)
Store(h, bytes) == [id |-> Alloc(h), heap |-> h @@ (Alloc(h) :> bytes)]

(* Garbage collection: only arrays some root refers to stay.               *)
Collect(h, roots) == [i \in (DOMAIN h) \cap roots |-> h[i]]

DataOf(p) == heap[p.data]

---------------------------------------------------------------------------
(* Picture.constructor.  The result of a call is a record                  *)
(* [err, pic, heap]: the Error thrown ("none" when it returned), the       *)
(* Picture returned and the heap after the call.                           *)

Threw(h, msg) == [err |-> msg, pic |-> NoPicture, heap |-> h]

Returned(h, p) == [err |-> "none", pic |-> p, heap |-> h]

(* The mutant of the 3-channel branch: the alpha comes before the colours. *)
RECURSIVE WithAlphaFirst(_)
WithAlphaFirst(d) ==
  IF Len(d) < NO_ALPHA_CHANNELS THEN <<>>
  ELSE <<DEFAULT_ALPHA, d[1], d[2], d[3]>>
         \o WithAlphaFirst(SubSeq(d, NO_ALPHA_CHANNELS + 1, Len(d)))

(* The 3-channel branch: every third byte is followed by DEFAULT_ALPHA.    *)
RECURSIVE WithAlpha(_)
WithAlpha(d) ==
  IF Len(d) < NO_ALPHA_CHANNELS THEN <<>>
  ELSE <<d[1], d[2], d[3], DEFAULT_ALPHA>>
         \o WithAlpha(SubSeq(d, NO_ALPHA_CHANNELS + 1, Len(d)))

(* The mutant of the constructor: it takes an array of any length.         *)
PictureUnchecked(h, width, height, data) ==
  IF Len(h[data]) = width * height * NO_ALPHA_CHANNELS /\ Len(h[data]) # 0
  THEN LET s == Store(h, WithAlpha(h[data]))
       IN  Returned(s.heap, [width |-> width, height |-> height, data |-> s.id])
  ELSE Returned(h, [width |-> width, height |-> height, data |-> data])

Picture(h, width, height, data) ==
  IF Len(h[data]) = width * height * CHANNELS
  THEN Returned(h, [width |-> width, height |-> height, data |-> data])
  ELSE IF Len(h[data]) = width * height * NO_ALPHA_CHANNELS
  THEN LET s == Store(h, WithAlpha(h[data]))
       IN  Returned(s.heap, [width |-> width, height |-> height, data |-> s.id])
  ELSE Threw(h, "Image data length doesn't match dimensions")

From(h, obj) == Picture(h, obj.width, obj.height, obj.data)

(* Picture.toObject: the object holds the Picture's own array.             *)
toObject(h, picture) ==
  [obj |-> [width |-> picture.width, height |-> picture.height,
            data |-> picture.data, channels |-> CHANNELS],
   heap |-> h]

(* The mutant of the filter: it drops the first byte of every pixel.       *)
RECURSIVE FilteredDropsFirst(_, _)
FilteredDropsFirst(d, i) ==
  IF i >= Len(d) THEN <<>>
  ELSE (IF i % 4 # 0 THEN <<d[i + 1]>> ELSE <<>>) \o FilteredDropsFirst(d, i + 1)

(* this.data.filter((_v, i) => i % 4 !== 3) from byte i on.                *)
RECURSIVE Filtered(_, _)
Filtered(d, i) ==
  IF i >= Len(d) THEN <<>>
  ELSE (IF i % 4 # 3 THEN <<d[i + 1]>> ELSE <<>>) \o Filtered(d, i + 1)

(* Picture.toNoAlphaObject: filter gives a new array.                      *)
toNoAlphaObject(h, picture) ==
  LET s == Store(h, Filtered(h[picture.data], 0))
  IN  [obj |-> [width |-> picture.width, height |-> picture.height,
                data |-> s.id, channels |-> NO_ALPHA_CHANNELS],
       heap |-> s.heap]

(* data[i] = v by whoever holds the array: the byte is stored clamped, and *)
(* an index outside the array stores nothing.                              *)
WriteByte(h, id, i, v) ==
  IF i >= 0 /\ i < Len(h[id]) THEN [h EXCEPT ![id][i + 1] = ToUint8Clamp(Num(v))]
  ELSE h

---------------------------------------------------------------------------
(* Picture.findCoordsToConvolveKernel.                                     *)

(* What the n-th assignment of the two loops (n from 0, rows j outside,    *)
(* columns i inside) stores: undefined for a whole row outside the image   *)
(* and for a column outside it, the linear index otherwise.                *)
KernelCell(imageWidth, imageHeight, x, y, kernelWidth, kernerHeight, n) ==
  LET j == n \div kernelWidth
      i == n % kernelWidth
      distanceToCenterY == -(kernerHeight \div 2) + j
      distanceToCenterX == -(kernelWidth \div 2) + i
  IN  IF distanceToCenterY + y < 0 \/ distanceToCenterY + y >= imageHeight
      THEN Undefined
      ELSE IF distanceToCenterX + x < 0 \/ distanceToCenterX + x >= imageWidth
      THEN Undefined
      ELSE (distanceToCenterX + x) + imageWidth * (distanceToCenterY + y)

(* The values the two loops assign, in the order they assign them.         *)
RECURSIVE Assignments(_, _, _, _, _, _, _)
Assignments(imageWidth, imageHeight, x, y, kernelWidth, kernerHeight, n) ==
  IF n >= kernelWidth * kernerHeight THEN <<>>
  ELSE <<KernelCell(imageWidth, imageHeight, x, y, kernelWidth, kernerHeight, n)>>
         \o Assignments(imageWidth, imageHeight, x, y, kernelWidth, kernerHeight, n + 1)

(* The mutant of the answer's order: filled front to back.                 *)
findCoordsFrontToBack(imageWidth, imageHeight, x, y, kernelWidth, kernerHeight) ==
  Assignments(imageWidth, imageHeight, x, y, kernelWidth, kernerHeight, 0)

(* answer[--kernelId] = ...: the assignments fill the answer back to front. *)
findCoordsToConvolveKernel(imageWidth, imageHeight, x, y, kernelWidth, kernerHeight) ==
  Reverse(Assignments(imageWidth, imageHeight, x, y, kernelWidth, kernerHeight, 0))

---------------------------------------------------------------------------
(* Picture.convolve.  A kernel is [rows, den]: the weight in row r and     *)
(* column k is the number rows[r][k] / den.                                *)

KernelWidthOf(kernel) == Len(kernel.rows[1])

KernelHeightOf(kernel) == Len(kernel.rows)

(* The mutant of the kernel check: only the width is checked.              *)
KernelErrorWidthOnly(kernel) ==
  IF KernelWidthOf(kernel) % 2 = 0
  THEN "Kernel is expected to have odd length"
  ELSE "none"

(* The two checks convolve makes before it allocates anything.             *)
KernelError(kernel) ==
  IF KernelWidthOf(kernel) % 2 = 0
  THEN "Kernel is expected to have odd length"
  ELSE IF KernelHeightOf(kernel) % 2 = 0
  THEN "Kernel is expected to have odd height"
  ELSE "none"

RECURSIVE Weights(_, _)
Weights(flat, den) ==
  IF flat = <<>> THEN <<>>
  ELSE <<Norm(Head(flat), den)>> \o Weights(Tail(flat), den)

(* The mutant of the flattening: the weights in reverse order, which pairs *)
(* weight i with the window cell opposite to cell i.                       *)
flattenKernelReversed(kernel) == Reverse(Weights(Flatten(kernel.rows), kernel.den))

(* kernel.flat(): the weights row after row.                               *)
flattenKernel(kernel) == Weights(Flatten(kernel.rows), kernel.den)

(* coords.reduce(...) for one channel: the sum, over the cells of coords   *)
(* from the i-th on, of source byte times weight; undefined cells add      *)
(* nothing.                                                                *)
RECURSIVE SumChannel(_, _, _, _, _)
SumChannel(src, coords, weights, channel, i) ==
  IF i > Len(coords) THEN Num(0)
  ELSE LET rest == SumChannel(src, coords, weights, channel, i + 1)
       IN  IF coords[i] = Undefined THEN rest
           ELSE RAdd(RMul(Num(src[coords[i] * CHANNELS + channel + 1]), weights[i]),
                     rest)

(* The mutant of the edge policy: keepEdges is ignored.                    *)
ConvolvedPixelNoEdges(src, width, height, x, y, kernel, keepEdges) ==
  LET coords == findCoordsToConvolveKernel(width, height, x, y,
                  KernelWidthOf(kernel), KernelHeightOf(kernel))
      weights == flattenKernel(kernel)
  IN  <<ToUint8Clamp(SumChannel(src, coords, weights, 0, 1)),
        ToUint8Clamp(SumChannel(src, coords, weights, 1, 1)),
        ToUint8Clamp(SumChannel(src, coords, weights, 2, 1)),
        DEFAULT_ALPHA>>

(* The mutant of the stored alpha: the source's alpha is kept.             *)
ConvolvedPixelKeepsAlpha(src, width, height, x, y, kernel, keepEdges) ==
  LET coords == findCoordsToConvolveKernel(width, height, x, y,
                  KernelWidthOf(kernel), KernelHeightOf(kernel))
      weights == flattenKernel(kernel)
      pixel == y * width + x
  IN  IF keepEdges /\ \E i \in 1..Len(coords) : coords[i] = Undefined
      THEN SubSeq(src, pixel * CHANNELS + 1, pixel * CHANNELS + CHANNELS)
      ELSE <<ToUint8Clamp(SumChannel(src, coords, weights, 0, 1)),
             ToUint8Clamp(SumChannel(src, coords, weights, 1, 1)),
             ToUint8Clamp(SumChannel(src, coords, weights, 2, 1)),
             src[pixel * CHANNELS + CHANNELS]>>

(* The four bytes of pixel (x, y) of the result: the copy of the source    *)
(* pixel when keepEdges and some window cell is outside, the clamped sums  *)
(* and DEFAULT_ALPHA otherwise.                                            *)
ConvolvedPixel(src, width, height, x, y, kernel, keepEdges) ==
  LET coords == findCoordsToConvolveKernel(width, height, x, y,
                  KernelWidthOf(kernel), KernelHeightOf(kernel))
      weights == flattenKernel(kernel)
      pixel == y * width + x
  IN  IF keepEdges /\ \E i \in 1..Len(coords) : coords[i] = Undefined
      THEN SubSeq(src, pixel * CHANNELS + 1, pixel * CHANNELS + CHANNELS)
      ELSE <<ToUint8Clamp(SumChannel(src, coords, weights, 0, 1)),
             ToUint8Clamp(SumChannel(src, coords, weights, 1, 1)),
             ToUint8Clamp(SumChannel(src, coords, weights, 2, 1)),
             DEFAULT_ALPHA>>

(* The two pixel loops from pixel number `pixel` on: the bytes of the      *)
(* rest of the data array.                                                 *)
RECURSIVE ConvolvedFrom(_, _, _, _, _, _)
ConvolvedFrom(src, width, height, kernel, keepEdges, pixel) ==
  IF pixel >= width * height THEN <<>>
  ELSE ConvolvedPixel(src, width, height, pixel % width, pixel \div width,
                      kernel, keepEdges)
         \o ConvolvedFrom(src, width, height, kernel, keepEdges, pixel + 1)

ConvolvedData(src, width, height, kernel, keepEdges) ==
  ConvolvedFrom(src, width, height, kernel, keepEdges, 0)

convolve(h, image, kernel, keepEdges) ==
  IF KernelError(kernel) # "none" THEN Threw(h, KernelError(kernel))
  ELSE LET s == Store(h, ConvolvedData(h[image.data], image.width, image.height,
                                       kernel, keepEdges))
       IN  Picture(s.heap, image.width, image.height, s.id)

---------------------------------------------------------------------------
(* Picture.merge2.                                                         *)

(* data.set(pixel, aPixel * CHANNELS) of four bytes.                       *)
SetPixel(data, pixel, bytes) ==
  SubSeq(data, 1, pixel * CHANNELS) \o bytes
    \o SubSeq(data, pixel * CHANNELS + CHANNELS + 1, Len(data))

(* The mutant of the blend: the foreground's colour is not weighted by its *)
(* alpha.                                                                  *)
BlendedUnweighted(pixelFromA, pixelFromB) ==
  LET alphaA == Norm(pixelFromA[CHANNELS], MAX_PIXEL)
      alphaB == Norm(pixelFromB[CHANNELS], MAX_PIXEL)
      newAlpha == RAdd(RMul(alphaA, RSub(Num(1), alphaB)), alphaB)
      Channel(k) ==
        RDiv(RAdd(RMul(RMul(Num(pixelFromA[k]), alphaA), RSub(Num(1), alphaB)),
                  Num(pixelFromB[k])),
             newAlpha)
  IN  <<Channel(1), Channel(2), Channel(3), RMul(newAlpha, Num(MAX_PIXEL))>>

(* The array `pixel` for a background pixel and a foreground pixel whose   *)
(* alphas are not both 0: the "over" blend, as numbers.                    *)
Blended(pixelFromA, pixelFromB) ==
  LET alphaA == Norm(pixelFromA[CHANNELS], MAX_PIXEL)
      alphaB == Norm(pixelFromB[CHANNELS], MAX_PIXEL)
      newAlpha == RAdd(RMul(alphaA, RSub(Num(1), alphaB)), alphaB)
      Channel(k) ==
        RDiv(RAdd(RMul(RMul(Num(pixelFromA[k]), alphaA), RSub(Num(1), alphaB)),
                  RMul(Num(pixelFromB[k]), alphaB)),
             newAlpha)
  IN  <<Channel(1), Channel(2), Channel(3), RMul(newAlpha, Num(MAX_PIXEL))>>

(* The mutant of the skip: the pair is skipped when either alpha is 0.     *)
MergedPixelSkipsEither(data, pixelFromA, pixelFromB, aPixel) ==
  IF pixelFromA[CHANNELS] = 0 \/ pixelFromB[CHANNELS] = 0 THEN data
  ELSE SetPixel(data, aPixel, Blended(pixelFromA, pixelFromB))

(* The mutant of the blend as a whole: the foreground pixel replaces the   *)
(* background pixel.                                                       *)
MergedPixelReplaces(data, pixelFromA, pixelFromB, aPixel) ==
  IF pixelFromA[CHANNELS] = 0 /\ pixelFromB[CHANNELS] = 0 THEN data
  ELSE SetPixel(data, aPixel, Nums(pixelFromB))

(* The body of the inner loop for one pair of pixels: nothing when both    *)
(* alphas are 0, the blend set at aPixel otherwise.                        *)
MergedPixel(data, pixelFromA, pixelFromB, aPixel) ==
  IF pixelFromA[CHANNELS] = 0 /\ pixelFromB[CHANNELS] = 0 THEN data
  ELSE SetPixel(data, aPixel, Blended(pixelFromA, pixelFromB))

(* The mutant of the loops: a column outside a is not skipped, and the     *)
(* pixel number it gives is written when the array holds it.               *)
RECURSIVE MergeLoopWraps(_, _, _, _, _, _, _, _, _)
MergeLoopWraps(adata, width, height, bdata, bwidth, bheight, offsetX, offsetY, st) ==
  IF st.n >= bwidth * bheight THEN st.data
  ELSE LET y == st.n \div bwidth
           x == st.n % bwidth
           i == offsetY + y
           j == offsetX + x
           bPixel == bwidth * y + x
           aPixel == width * i + j
           next ==
             IF i < 0 \/ i >= height \/ aPixel < 0 \/ aPixel >= width * height
             THEN st.data
             ELSE MergedPixel(st.data,
                    SubSeq(adata, aPixel * CHANNELS + 1, aPixel * CHANNELS + CHANNELS),
                    SubSeq(bdata, bPixel * CHANNELS + 1, bPixel * CHANNELS + CHANNELS),
                    aPixel)
       IN  MergeLoopWraps(adata, width, height, bdata, bwidth, bheight, offsetX,
                          offsetY, [n |-> st.n + 1, data |-> next])

(* The two loops over b's pixels from pixel number n of b on (y outside,   *)
(* x inside); st.data is what the copy of a's data has been given so far,  *)
(* as numbers.                                                             *)
RECURSIVE MergeLoop(_, _, _, _, _, _, _, _, _)
MergeLoop(adata, width, height, bdata, bwidth, bheight, offsetX, offsetY, st) ==
  IF st.n >= bwidth * bheight THEN st.data
  ELSE LET y == st.n \div bwidth
           x == st.n % bwidth
           i == offsetY + y
           j == offsetX + x
           bPixel == bwidth * y + x
           aPixel == width * i + j
           next ==
             IF i < 0 \/ i >= height \/ j < 0 \/ j >= width THEN st.data
             ELSE MergedPixel(st.data,
                    SubSeq(adata, aPixel * CHANNELS + 1, aPixel * CHANNELS + CHANNELS),
                    SubSeq(bdata, bPixel * CHANNELS + 1, bPixel * CHANNELS + CHANNELS),
                    aPixel)
       IN  MergeLoop(adata, width, height, bdata, bwidth, bheight, offsetX, offsetY,
                     [n |-> st.n + 1, data |-> next])

(* The mutant of merge2: the new array starts zero filled and not as a     *)
(* copy of a's data.                                                       *)
merge2OntoBlank(h, pa, pb, offsetX, offsetY) ==
  { Picture(Store(h, data).heap, pa.width, pa.height, Store(h, data).id) :
      data \in StoredArrays(
        MergeLoop(h[pa.data], pa.width, pa.height, h[pb.data], pb.width, pb.height,
                  offsetX, offsetY,
                  [n |-> 0, data |-> Nums([k \in 1..Len(h[pa.data]) |-> 0])])) }

(* The results merge2 can give: one for each array the stores can give.    *)
merge2(h, pa, pb, offsetX, offsetY) ==
  { Picture(Store(h, data).heap, pa.width, pa.height, Store(h, data).id) :
      data \in StoredArrays(
        MergeLoop(h[pa.data], pa.width, pa.height, h[pb.data], pb.width, pb.height,
                  offsetX, offsetY, [n |-> 0, data |-> Nums(h[pa.data])])) }

---------------------------------------------------------------------------
(* Pixel callbacks and Picture.manipulateChannels.                         *)

(* What ToNumber gives for undefined; a store of it gives 0.               *)
NaN == <<0, 0>>

(* TRUE_GRAY_RATIO: [0.2125, 0.7154, 0.0721].                              *)
TRUE_GRAY_RATIO == <<Norm(2125, 10000), Norm(7154, 10000), Norm(721, 10000)>>

(* Math.round: the nearest integer, a half rounded up.                     *)
MathRound(x) == (2 * x[1] + x[2]) \div (2 * x[2])

(* The callback Pixel.monochromize(rgb) applied to a pixel.                *)
Pixel_monochromize(rgb, pixel) ==
  LET black == RAdd(RAdd(RMul(Num(pixel[1]), rgb[1]), RMul(Num(pixel[2]), rgb[2])),
                    RMul(Num(pixel[3]), rgb[3]))
  IN  <<black, black, black,
        IF Len(pixel) >= CHANNELS THEN Num(pixel[CHANNELS]) ELSE Num(MAX_PIXEL)>>

RECURSIVE Binarized(_, _, _)
Binarized(tolerance, pixel, i) ==
  IF i >= CHANNELS THEN <<>>
  ELSE <<IF (IF i < Len(pixel) THEN pixel[i + 1] ELSE DEFAULT_ALPHA) > tolerance
         THEN Num(MAX_PIXEL) ELSE Num(MIN_PIXEL)>>
         \o Binarized(tolerance, pixel, i + 1)

(* The callback Pixel.binarizeColors(tolerance) applied to a pixel.        *)
Pixel_binarizeColors(tolerance, pixel) == Binarized(tolerance, pixel, 0)

(* ranges of groupColors from entry i on (entry 0 is written 0 at the      *)
(* end), prev being the entry before as the loop computed it.              *)
RECURSIVE RangesFrom(_, _, _, _)
RangesFrom(colorSpaceRatios, ratiosSum, i, prev) ==
  IF i > Len(colorSpaceRatios) THEN <<>>
  ELSE LET cur == RAdd(prev, RMul(RDiv(Num(MAX_PIXEL + 1), Num(ratiosSum)),
                                  Num(colorSpaceRatios[i])))
       IN  <<cur>> \o RangesFrom(colorSpaceRatios, ratiosSum, i + 1, cur)

RECURSIVE SumOfRatios(_)
SumOfRatios(colorSpaceRatios) ==
  IF colorSpaceRatios = <<>> THEN 0
  ELSE Head(colorSpaceRatios) + SumOfRatios(Tail(colorSpaceRatios))

(* ranges[0], ranges[1], ... as the entries 1, 2, ... of a sequence.       *)
Ranges(colorSpaceRatios) ==
  <<Num(0)>> \o RangesFrom(colorSpaceRatios, SumOfRatios(colorSpaceRatios), 1, Num(-1))

RECURSIVE MiddleValues(_, _, _)
MiddleValues(ranges, i, last) ==
  IF i >= last THEN <<>>
  ELSE <<MathRound(RDiv(RAdd(ranges[i + 1], ranges[i + 2]), Num(2)))>>
         \o MiddleValues(ranges, i + 1, last)

(* nearestValue[0], nearestValue[1], ... as a sequence.                    *)
NearestValues(colorSpaceRatios) ==
  <<MIN_PIXEL>>
    \o MiddleValues(Ranges(colorSpaceRatios), 1, Len(colorSpaceRatios) - 1)
    \o <<MAX_PIXEL>>

(* The while loop: the first index from i on whose range the value does    *)
(* not exceed; no value exceeds the undefined past the last range.         *)
RECURSIVE IntervalIndex(_, _, _)
IntervalIndex(value, ranges, i) ==
  IF i >= Len(ranges) THEN i
  ELSE IF RLess(ranges[i + 1], Num(value)) THEN IntervalIndex(value, ranges, i + 1)
  ELSE i

(* nearestValue[nearestIntervalIndex] for a channel value: undefined when  *)
(* the index is -1 or past the last value.                                 *)
GroupedValue(value, ranges, nearestValue) ==
  LET nearestIntervalIndex == IntervalIndex(value, ranges, 0) - 1
  IN  IF nearestIntervalIndex < 0 \/ nearestIntervalIndex >= Len(nearestValue)
      THEN NaN
      ELSE Num(nearestValue[nearestIntervalIndex + 1])

(* The callback Pixel.groupColors(colorSpaceRatios) applied to a pixel.    *)
Pixel_groupColors(colorSpaceRatios, pixel) ==
  LET ranges == Ranges(colorSpaceRatios)
      nearestValue == NearestValues(colorSpaceRatios)
  IN  <<GroupedValue(pixel[1], ranges, nearestValue),
        GroupedValue(pixel[2], ranges, nearestValue),
        GroupedValue(pixel[3], ranges, nearestValue),
        IF Len(pixel) >= CHANNELS THEN Num(pixel[CHANNELS]) ELSE Num(DEFAULT_ALPHA)>>

(* The callbacks the client passes, by name: those of the tests, and those *)
(* Pixel builds from a parameter.  A callback gets the pixel and its       *)
(* index and gives three or four numbers; param is the parameter Pixel     *)
(* built it from (the tolerance as a list of one number).                  *)
pixelCallback(callback, param, pixel, index) ==
  CASE callback = "double3" ->
         <<Num(2 * pixel[1]), Num(2 * pixel[2]), Num(2 * pixel[3])>>
    [] callback = "double4" ->
         <<Num(2 * pixel[1]), Num(2 * pixel[2]), Num(2 * pixel[3]), Num(pixel[4])>>
    [] callback = "swap3" -> <<Num(pixel[2]), Num(pixel[3]), Num(pixel[1])>>
    [] callback = "swap4" ->
         <<Num(pixel[2]), Num(pixel[3]), Num(pixel[1]), Num(pixel[4])>>
    [] callback = "blackenOdd" ->
         IF index % 2 = 1 THEN <<Num(0), Num(0), Num(0), Num(255)>> ELSE Nums(pixel)
    [] callback = "monochromize" -> Pixel_monochromize(param, pixel)
    [] callback = "binarizeColors" -> Pixel_binarizeColors(param[1], pixel)
    [] callback = "groupColors" -> Pixel_groupColors(param, pixel)

(* The mutant of the loop: a callback result of three channels is          *)
(* followed by the pixel's own alpha.                                      *)
RECURSIVE ManipulatedKeepsAlpha(_, _, _, _)
ManipulatedKeepsAlpha(src, callback, param, i) ==
  IF i >= Len(src) THEN <<>>
  ELSE LET r == pixelCallback(callback, param,
                              SubSeq(src, i + 1, Min(i + CHANNELS, Len(src))),
                              i \div CHANNELS)
       IN  (IF Len(r) = NO_ALPHA_CHANNELS THEN r \o <<Num(src[i + CHANNELS])>> ELSE r)
             \o ManipulatedKeepsAlpha(src, callback, param, i + CHANNELS)

(* The array `data` of manipulateChannels from byte i of the image on.     *)
RECURSIVE Manipulated(_, _, _, _)
Manipulated(src, callback, param, i) ==
  IF i >= Len(src) THEN <<>>
  ELSE pixelCallback(callback, param, SubSeq(src, i + 1, Min(i + CHANNELS, Len(src))),
                     i \div CHANNELS)
         \o Manipulated(src, callback, param, i + CHANNELS)

(* The results manipulateChannels can give: one for each array that        *)
(* new Uint8ClampedArray(data) can be.                                     *)
manipulateChannels(h, image, callback, param) ==
  { Picture(Store(h, data).heap, image.width, image.height, Store(h, data).id) :
      data \in StoredArrays(Manipulated(h[image.data], callback, param, 0)) }

monochromize(h, image, rgb) == manipulateChannels(h, image, "monochromize", rgb)

binarizeColors(h, image, tolerance) ==
  manipulateChannels(h, image, "binarizeColors", <<tolerance>>)

---------------------------------------------------------------------------
(* Picture.groupColors.                                                    *)

RECURSIVE GroupedFrom(_, _, _, _)
GroupedFrom(src, ranges, nearestValue, i) ==
  IF i >= Len(src) THEN <<>>
  ELSE <<IF i % CHANNELS = CHANNELS - 1 THEN Num(src[i + 1])
         ELSE GroupedValue(src[i + 1], ranges, nearestValue)>>
         \o GroupedFrom(src, ranges, nearestValue, i + 1)

groupColors(h, image, colorSpaceRatios) ==
  LET s == Store(h, ClampAll(GroupedFrom(h[image.data], Ranges(colorSpaceRatios),
                                         NearestValues(colorSpaceRatios), 0)))
  IN  Picture(s.heap, image.width, image.height, s.id)

---------------------------------------------------------------------------
(* Picture.resize.                                                         *)

RECURSIVE Zeros(_)
Zeros(n) == IF n <= 0 THEN <<>> ELSE <<0>> \o Zeros(n - 1)

(* The mutant of the two loops: a source pixel outside the picture is      *)
(* taken from where its index lands in the array (rows wrap around).       *)
RECURSIVE ResizedFromWraps(_, _, _, _, _, _, _)
ResizedFromWraps(src, srcWidth, srcHeight, offsetX, offsetY, width, pixel) ==
  IF pixel.n >= pixel.count THEN <<>>
  ELSE LET i == offsetY + (pixel.n \div width)
           j == offsetX + (pixel.n % width)
           pixelOfOriginal == i * srcWidth + j
       IN  (IF pixelOfOriginal >= 0 /\ pixelOfOriginal < srcWidth * srcHeight
            THEN SubSeq(src, CHANNELS * pixelOfOriginal + 1,
                        CHANNELS * pixelOfOriginal + CHANNELS)
            ELSE Zeros(CHANNELS))
             \o ResizedFromWraps(src, srcWidth, srcHeight, offsetX, offsetY, width,
                                 [pixel EXCEPT !.n = pixel.n + 1])

(* The two loops from destination pixel number `pixel` on.                 *)
RECURSIVE ResizedFrom(_, _, _, _, _, _, _)
ResizedFrom(src, srcWidth, srcHeight, offsetX, offsetY, width, pixel) ==
  IF pixel.n >= pixel.count THEN <<>>
  ELSE LET i == offsetY + (pixel.n \div width)
           j == offsetX + (pixel.n % width)
           pixelOfOriginal == i * srcWidth + j
       IN  (IF i >= 0 /\ i < srcHeight /\ j >= 0 /\ j < srcWidth
            THEN SubSeq(src, CHANNELS * pixelOfOriginal + 1,
                        CHANNELS * pixelOfOriginal + CHANNELS)
            ELSE Zeros(CHANNELS))
             \o ResizedFrom(src, srcWidth, srcHeight, offsetX, offsetY, width,
                            [pixel EXCEPT !.n = pixel.n + 1])

(* The mutant of resize: a window that starts inside the picture is taken  *)
(* from the picture's first pixel.                                         *)
resizeCropsAtOrigin(h, picture, offsetX, offsetY, width, height) ==
  IF width * height * CHANNELS < 0 THEN Threw(h, "Invalid typed array length")
  ELSE LET count == IF width > 0 /\ height > 0 THEN width * height ELSE 0
           s == Store(h, ResizedFrom(h[picture.data], picture.width, picture.height,
                                     Min(offsetX, 0), Min(offsetY, 0), width,
                                     [n |-> 0, count |-> count])
                           \o Zeros(width * height * CHANNELS - count * CHANNELS))
       IN  Picture(s.heap, width, height, s.id)

(* The mutant of resize: the window that is the whole picture returns the  *)
(* picture's own array.                                                    *)
resizeSharesWhole(h, picture, offsetX, offsetY, width, height) ==
  IF offsetX = 0 /\ offsetY = 0 /\ width = picture.width /\ height = picture.height
  THEN Picture(h, width, height, picture.data)
  ELSE IF width * height * CHANNELS < 0 THEN Threw(h, "Invalid typed array length")
  ELSE LET count == IF width > 0 /\ height > 0 THEN width * height ELSE 0
           s == Store(h, ResizedFrom(h[picture.data], picture.width, picture.height,
                                     offsetX, offsetY, width,
                                     [n |-> 0, count |-> count])
                           \o Zeros(width * height * CHANNELS - count * CHANNELS))
       IN  Picture(s.heap, width, height, s.id)

(* new Uint8ClampedArray(width * height * CHANNELS) throws a RangeError    *)
(* for a negative length; the loops run only for positive sizes.           *)
resize(h, picture, offsetX, offsetY, width, height) ==
  IF width * height * CHANNELS < 0 THEN Threw(h, "Invalid typed array length")
  ELSE LET count == IF width > 0 /\ height > 0 THEN width * height ELSE 0
           s == Store(h, ResizedFrom(h[picture.data], picture.width, picture.height,
                                     offsetX, offsetY, width,
                                     [n |-> 0, count |-> count])
                           \o Zeros(width * height * CHANNELS - count * CHANNELS))
       IN  Picture(s.heap, width, height, s.id)

---------------------------------------------------------------------------
(* Comparator, in the version Picture works with (policy names ignore,     *)
(* multiply, ignoreFirst, subtract).  A pixel is a sequence of three or    *)
(* four bytes; an absent pixel (undefined) is NoPixel.                     *)

NoPixel == <<>>

(* The sum of |a[i] - b[i]| over the three colour channels.                *)
ColourDistance(pa, pb) ==
  Abs(pa[1] - pb[1]) + Abs(pa[2] - pb[2]) + Abs(pa[3] - pb[3])

(* arr[CHANNELS - 1] ?? DEFAULT_ALPHA                                      *)
AlphaOrDefault(arr) == IF Len(arr) >= CHANNELS THEN arr[CHANNELS] ELSE DEFAULT_ALPHA

(* The mutant of the transparency: the alpha is divided by 256.            *)
getTranparencyBy256(arr) == Norm(AlphaOrDefault(arr), MAX_PIXEL + 1)

(* (arr[CHANNELS - 1] ?? DEFAULT_ALPHA) / MAX_PIXEL                        *)
getTranparency(arr) == Norm(AlphaOrDefault(arr), MAX_PIXEL)

(* The mutant of the subtract policy: the alphas' difference is added      *)
(* with its sign.                                                          *)
comparePixelsSignedAlpha(pa, pb, alpha) ==
  CASE alpha = "ignore" -> Num(ColourDistance(pa, pb))
    [] alpha = "subtract" ->
         Num(ColourDistance(pa, pb) + (AlphaOrDefault(pa) - AlphaOrDefault(pb)))
    [] alpha = "ignoreFirst" ->
         RMul(RMul(Num(ColourDistance(pa, pb)), Num(1)), getTranparency(pb))
    [] alpha = "multiply" ->
         RMul(RMul(Num(ColourDistance(pa, pb)), getTranparency(pa)), getTranparency(pb))

(* Comparator.comparePixels.                                               *)
comparePixels(pa, pb, alpha) ==
  CASE alpha = "ignore" -> Num(ColourDistance(pa, pb))
    [] alpha = "subtract" ->
         Num(ColourDistance(pa, pb) + Abs(AlphaOrDefault(pa) - AlphaOrDefault(pb)))
    [] alpha = "ignoreFirst" ->
         RMul(RMul(Num(ColourDistance(pa, pb)), Num(1)), getTranparency(pb))
    [] alpha = "multiply" ->
         RMul(RMul(Num(ColourDistance(pa, pb)), getTranparency(pa)), getTranparency(pb))

(* groupArr(data, n): the groups of n consecutive entries, the last one    *)
(* shorter when n does not divide the length.                              *)
RECURSIVE groupArr(_, _)
groupArr(data, n) ==
  IF data = <<>> THEN <<>>
  ELSE <<SubSeq(data, 1, Min(n, Len(data)))>>
         \o groupArr(SubSeq(data, n + 1, Len(data)), n)

(* An argument of compareMultiplePixels: a list of pixels, some of them    *)
(* absent, or a Uint8ClampedArray of bytes.                                *)
List(pixels) == [typed |-> FALSE, items |-> pixels]
Typed(bytes) == [typed |-> TRUE, items |-> bytes]

(* escapedA / escapedB: a Uint8ClampedArray is grouped into pixels.        *)
Escaped(x) == IF x.typed THEN groupArr(x.items, 4) ELSE x.items

(* undefinedScore = 255 * NO_ALPHA_CHANNELS, the default of the parameter. *)
OrDefaultScore(undefinedScore) ==
  IF undefinedScore = Undefined THEN 255 * NO_ALPHA_CHANNELS ELSE undefinedScore

(* The mutant of the loop: an absent pixel adds nothing.                   *)
RECURSIVE ScoreFromSkipsAbsent(_, _, _, _, _)
ScoreFromSkipsAbsent(sa, sb, alpha, undefinedScore, i) ==
  IF i > Len(sa) THEN Num(0)
  ELSE RAdd(IF sa[i] = NoPixel \/ sb[i] = NoPixel THEN Num(0)
            ELSE comparePixels(sa[i], sb[i], alpha),
            ScoreFromSkipsAbsent(sa, sb, alpha, undefinedScore, i + 1))

(* The loop of compareMultiplePixels from position i on.                   *)
RECURSIVE ScoreFrom(_, _, _, _, _)
ScoreFrom(sa, sb, alpha, undefinedScore, i) ==
  IF i > Len(sa) THEN Num(0)
  ELSE RAdd(IF sa[i] = NoPixel \/ sb[i] = NoPixel THEN Num(undefinedScore)
            ELSE comparePixels(sa[i], sb[i], alpha),
            ScoreFrom(sa, sb, alpha, undefinedScore, i + 1))

(* The value of a call of a Comparator method: the Error thrown ("none"    *)
(* when it returned) and the number returned; `scored` is how many pairs   *)
(* the loop has gone through.                                              *)
Scored(score, n) == [err |-> "none", score |-> score, scored |-> n]

(* The mutant of the length check: the longer list is cut to the shorter.  *)
compareMultiplePixelsTruncates(pa, pb, alpha, undefinedScore) ==
  LET n  == Min(Len(Escaped(pa)), Len(Escaped(pb)))
      sa == SubSeq(Escaped(pa), 1, n)
      sb == SubSeq(Escaped(pb), 1, n)
  IN  Scored(ScoreFrom(sa, sb, alpha, undefinedScore, 1), n)

(* Comparator.compareMultiplePixels; undefinedScore is Undefined when the  *)
(* caller passes none.                                                     *)
compareMultiplePixels(pa, pb, alpha, undefinedScore) ==
  LET sa == Escaped(pa)
      sb == Escaped(pb)
  IN  IF Len(sa) # Len(sb)
      THEN [err |-> "Lengths of arrays must match", score |-> NaN, scored |-> 0]
      ELSE Scored(ScoreFrom(sa, sb, alpha, OrDefaultScore(undefinedScore), 1),
                  Len(sa))

---------------------------------------------------------------------------
(* Comparator of src/lib/Comparator.ts (policy names ignore, multiply,     *)
(* ignoreFirst, compare): it takes lists only, and it multiplies each      *)
(* colour channel by its pixel's transparency before it subtracts.         *)

(* |a[i] * aTransparency - b[i] * bTransparency| summed over the colour    *)
(* channels.                                                               *)
WeightedDistance(pa, aTransparency, pb, bTransparency) ==
  LET Term(i) == RAbs(RSub(RMul(Num(pa[i]), aTransparency),
                           RMul(Num(pb[i]), bTransparency)))
  IN  RAdd(RAdd(Term(1), Term(2)), Term(3))

(* The mutant of the ignoreFirst policy: the sum of the differences is     *)
(* multiplied by b's transparency.                                         *)
Comparator_comparePixelsScalesSum(pa, pb, alpha) ==
  CASE alpha = "ignore" -> Num(ColourDistance(pa, pb))
    [] alpha = "compare" ->
         Num(ColourDistance(pa, pb) + Abs(AlphaOrDefault(pa) - AlphaOrDefault(pb)))
    [] alpha = "ignoreFirst" ->
         RMul(Num(ColourDistance(pa, pb)), getTranparency(pb))
    [] alpha = "multiply" ->
         WeightedDistance(pa, getTranparency(pa), pb, getTranparency(pb))

(* The mutant of the multiply policy: a's channels are not multiplied.     *)
Comparator_comparePixelsOneSided(pa, pb, alpha) ==
  CASE alpha = "ignore" -> Num(ColourDistance(pa, pb))
    [] alpha = "compare" ->
         Num(ColourDistance(pa, pb) + Abs(AlphaOrDefault(pa) - AlphaOrDefault(pb)))
    [] alpha = "ignoreFirst" ->
         WeightedDistance(pa, Num(1), pb, getTranparency(pb))
    [] alpha = "multiply" ->
         WeightedDistance(pa, Num(1), pb, getTranparency(pb))

(* Comparator.comparePixels of src/lib/Comparator.ts.                      *)
Comparator_comparePixels(pa, pb, alpha) ==
  CASE alpha = "ignore" -> Num(ColourDistance(pa, pb))
    [] alpha = "compare" ->
         Num(ColourDistance(pa, pb) + Abs(AlphaOrDefault(pa) - AlphaOrDefault(pb)))
    [] alpha = "ignoreFirst" ->
         WeightedDistance(pa, Num(1), pb, getTranparency(pb))
    [] alpha = "multiply" ->
         WeightedDistance(pa, getTranparency(pa), pb, getTranparency(pb))

RECURSIVE Comparator_ScoreFrom(_, _, _, _, _)
Comparator_ScoreFrom(sa, sb, alpha, undefinedScore, i) ==
  IF i > Len(sa) THEN Num(0)
  ELSE RAdd(IF sa[i] = NoPixel \/ sb[i] = NoPixel THEN Num(undefinedScore)
            ELSE Comparator_comparePixels(sa[i], sb[i], alpha),
            Comparator_ScoreFrom(sa, sb, alpha, undefinedScore, i + 1))

(* Comparator.compareMultiplePixels of src/lib/Comparator.ts, on two lists *)
(* of pixels.                                                              *)
Comparator_compareMultiplePixels(sa, sb, alpha, undefinedScore) ==
  IF Len(sa) # Len(sb)
  THEN [err |-> "Lengths of arrays must match", score |-> NaN, scored |-> 0]
  ELSE Scored(Comparator_ScoreFrom(sa, sb, alpha, OrDefaultScore(undefinedScore), 1),
              Len(sa))

---------------------------------------------------------------------------
(* Picture.createBlockSimilarityMask.  Its offsets are numbers: the        *)
(* remainder by a block size of 0 is NaN.                                  *)

(* x % y of JavaScript for y > 0: the remainder has the sign of x.         *)
JsRem(x, y) == IF x >= 0 THEN x % y ELSE -((-x) % y)

(* x % y, x + y and x - y of whole numbers or NaN.                         *)
RRem(x, y) ==
  IF x = NaN \/ y = NaN \/ y[1] = 0 THEN NaN ELSE Num(JsRem(x[1], y[1]))
RPlus(x, y) == IF x = NaN \/ y = NaN THEN NaN ELSE RAdd(x, y)

(* The mutant of the row: its pixels are pushed from the last column to    *)
(* the first.                                                              *)
RECURSIVE GatherRowBackwards(_, _, _, _, _, _)
GatherRowBackwards(src, mainWidth, i, j, last, got) ==
  IF j >= last THEN got
  ELSE LET rest == GatherRowBackwards(src, mainWidth, i, j + 1, last, got)
       IN  IF j < 0 \/ j >= mainWidth
           THEN [pixelIds |-> Append(rest.pixelIds, Undefined),
                 channels |-> Append(rest.channels, NoPixel)]
           ELSE [pixelIds |-> Append(rest.pixelIds, j + i * mainWidth),
                 channels |-> Append(rest.channels,
                                 SubSeq(src, (j + i * mainWidth) * CHANNELS + 1,
                                        (j + i * mainWidth) * CHANNELS + CHANNELS))]

(* The mutant of the row: a column outside main is taken from the nearest  *)
(* column inside.                                                          *)
RECURSIVE GatherRowClamps(_, _, _, _, _, _)
GatherRowClamps(src, mainWidth, i, j, last, got) ==
  IF j >= last THEN got
  ELSE LET c == IF j < 0 THEN 0 ELSE IF j >= mainWidth THEN mainWidth - 1 ELSE j
       IN  GatherRowClamps(src, mainWidth, i, j + 1, last,
             [pixelIds |-> Append(got.pixelIds, c + i * mainWidth),
              channels |-> Append(got.channels,
                              SubSeq(src, (c + i * mainWidth) * CHANNELS + 1,
                                     (c + i * mainWidth) * CHANNELS + CHANNELS))])

(* One row i of a placement at column x: the pixel ids and the channels    *)
(* it pushes (Undefined and NoPixel for what lies outside main).  A row    *)
(* outside main pushes one id only, and a whole row of absent channels.    *)
RECURSIVE GatherRow(_, _, _, _, _, _)
GatherRow(src, mainWidth, i, j, last, got) ==
  IF j >= last THEN got
  ELSE GatherRow(src, mainWidth, i, j + 1, last,
         IF j < 0 \/ j >= mainWidth
         THEN [pixelIds |-> Append(got.pixelIds, Undefined),
               channels |-> Append(got.channels, NoPixel)]
         ELSE [pixelIds |-> Append(got.pixelIds, j + i * mainWidth),
               channels |-> Append(got.channels,
                               SubSeq(src, (j + i * mainWidth) * CHANNELS + 1,
                                      (j + i * mainWidth) * CHANNELS + CHANNELS))])

RECURSIVE AbsentRow(_)
AbsentRow(n) == IF n <= 0 THEN <<>> ELSE <<NoPixel>> \o AbsentRow(n - 1)

RECURSIVE Gather(_, _, _, _, _, _, _, _, _)
Gather(src, mainWidth, mainHeight, x, y, blockWidth, blockHeight, i, got) ==
  IF i >= y + blockHeight THEN got
  ELSE Gather(src, mainWidth, mainHeight, x, y, blockWidth, blockHeight, i + 1,
         IF i < 0 \/ i >= mainHeight
         THEN [pixelIds |-> Append(got.pixelIds, Undefined),
               channels |-> got.channels \o AbsentRow(blockWidth)]
         ELSE GatherRow(src, mainWidth, i, x, x + blockWidth, got))

(* The mutant of the store: the score goes into all four channels.         *)
RECURSIVE SetScoresGray(_, _, _, _)
SetScoresGray(data, pixelIds, score, n) ==
  IF n > Len(pixelIds) THEN data
  ELSE SetScoresGray(IF pixelIds[n] = Undefined THEN data
                     ELSE SetPixel(data, pixelIds[n], <<score, score, score, score>>),
                     pixelIds, score, n + 1)

(* pixelIds.forEach: [0, 0, 0, score] set at every pixel id that is there; *)
(* score is the byte the store of the placement's score gives.             *)
RECURSIVE SetScores(_, _, _, _)
SetScores(data, pixelIds, score, n) ==
  IF n > Len(pixelIds) THEN data
  ELSE SetScores(IF pixelIds[n] = Undefined THEN data
                 ELSE SetPixel(data, pixelIds[n], <<0, 0, 0, score>>),
                 pixelIds, score, n + 1)

(* The score of one placement: [err, score], the score as a number, and    *)
(* `aggregate`, what compareMultiplePixels returned.                       *)
PlacementScore(channels, blockData, blockWidth, blockHeight) ==
  LET totalPixelsInBlock == blockWidth * blockHeight
      totalChannelsInBlock == Norm(totalPixelsInBlock, NO_ALPHA_CHANNELS)
      compared == compareMultiplePixels(List(channels), Typed(blockData),
                                        "multiply", Undefined)
  IN  IF compared.err # "none" THEN compared
      ELSE [err |-> "none", scored |-> compared.scored,
            aggregate |-> compared.score,
            score |-> RDiv(RDiv(RDiv(compared.score, totalChannelsInBlock),
                                Num(blockWidth)),
                           Num(blockHeight))]

(* The loops over the placements, row y from column x on.  st.datas are    *)
(* the contents the new array can have so far: the score of a placement is *)
(* one double, and its store gives one byte for all the placement's        *)
(* pixels.  st.err is the Error compareMultiplePixels threw, and           *)
(* st.placements lists what the loops went through: for each placement     *)
(* its x and y, its pixelIds and channels, and the aggregate score.        *)
RECURSIVE MaskLoop(_, _, _, _, _, _, _)
MaskLoop(src, main, blockData, block, startingX, pos, st) ==
  IF st.err # "none" \/ pos.y >= main.height THEN st
  ELSE IF pos.x >= main.width
  THEN MaskLoop(src, main, blockData, block, startingX,
                [x |-> startingX, y |-> pos.y + block.height], st)
  ELSE LET got == Gather(src, main.width, main.height, pos.x, pos.y,
                         block.width, block.height, pos.y,
                         [pixelIds |-> <<>>, channels |-> <<>>])
           scored == PlacementScore(got.channels, blockData, block.width, block.height)
       IN  MaskLoop(src, main, blockData, block, startingX,
                    [x |-> pos.x + block.width, y |-> pos.y],
                    IF scored.err # "none" THEN [st EXCEPT !.err = scored.err]
                    ELSE [st EXCEPT !.datas =
                            { SetScores(data, got.pixelIds, score, 1) :
                                data \in st.datas,
                                score \in StoresOfDouble(scored.score) },
                          !.placements =
                            Append(@, [x |-> pos.x, y |-> pos.y,
                                       pixelIds |-> got.pixelIds,
                                       channels |-> got.channels,
                                       aggregate |-> scored.aggregate])])

(* The call once the offsets are inside the block.  With a block of width  *)
(* or height 0 a starting coordinate is NaN, below no number, and no       *)
(* placement is scanned.                                                   *)
MaskData(src, main, blockData, block, offsetX, offsetY) ==
  LET startingX == RRem(RPlus(RRem(offsetX, Num(block.width)), Num(-block.width)),
                        Num(block.width))
      startingY == RRem(RPlus(RRem(offsetY, Num(block.height)), Num(-block.height)),
                        Num(block.height))
      blank == [err |-> "none", datas |-> {Zeros(Len(src))}, placements |-> <<>>]
  IN  IF startingX = NaN \/ startingY = NaN THEN blank
      ELSE MaskLoop(src, main, blockData, block, startingX[1],
                    [x |-> startingX[1], y |-> startingY[1]], blank)

(* The mutant of the fold: the remainder's sign is dropped.                *)
RealOffsetMirrored(offset, size) == RAbs(RRem(offset, Num(size)))

(* realXoffset / realYoffset.                                              *)
RealOffset(offset, size) ==
  RRem(RPlus(Num(size), RRem(offset, Num(size))), Num(size))

(* The condition under which the method calls itself; no comparison with   *)
(* NaN holds.                                                              *)
OutsideBlock(block, offsetX, offsetY) ==
  \/ offsetX # NaN /\ (offsetX[1] < 0 \/ offsetX[1] > block.width)
  \/ offsetY # NaN /\ (offsetY[1] < 0 \/ offsetY[1] > block.height)

(* How many times a call with these offsets calls itself.                  *)
RECURSIVE Reentries(_, _, _)
Reentries(block, offsetX, offsetY) ==
  IF OutsideBlock(block, offsetX, offsetY)
  THEN 1 + Reentries(block, RealOffset(offsetX, block.width),
                     RealOffset(offsetY, block.height))
  ELSE 0

(* The placements the call goes through, once the offsets are inside the   *)
(* block.                                                                  *)
RECURSIVE Placements(_, _, _, _, _)
Placements(h, main, block, offsetX, offsetY) ==
  IF OutsideBlock(block, offsetX, offsetY)
  THEN Placements(h, main, block, RealOffset(offsetX, block.width),
                  RealOffset(offsetY, block.height))
  ELSE MaskData(h[main.data], main, h[block.data], block, offsetX, offsetY).placements

(* The results the call can give: one for each array the stores can give,  *)
(* or the Error of compareMultiplePixels.                                  *)
RECURSIVE createBlockSimilarityMask(_, _, _, _, _)
createBlockSimilarityMask(h, main, block, offsetX, offsetY) ==
  IF OutsideBlock(block, offsetX, offsetY)
  THEN createBlockSimilarityMask(h, main, block,
                                 RealOffset(offsetX, block.width),
                                 RealOffset(offsetY, block.height))
  ELSE LET st == MaskData(h[main.data], main, h[block.data], block,
                          offsetX, offsetY)
       IN  IF st.err # "none" THEN {Threw(h, st.err)}
           ELSE { Picture(Store(h, data).heap, main.width, main.height,
                          Store(h, data).id) : data \in st.datas }

---------------------------------------------------------------------------
(* The client: what it holds before a call and how a call ends.            *)

NoKernel == [rows |-> <<>>, den |-> 1]

NoCall ==
  [op |-> "none", width |-> 0, height |-> 0, x |-> 0, y |-> 0,
   kernel |-> NoKernel, keepEdges |-> TRUE, offsetX |-> 0, offsetY |-> 0,
   callback |-> "none", param |-> <<>>, alpha |-> "none",
   undefinedScore |-> Undefined, written |-> 0]

(* Bytes (seed + step * i) mod 256: the contents the client fills its      *)
(* arrays with.                                                            *)
RECURSIVE Pattern(_, _, _)
Pattern(seed, step, len) ==
  IF len = 0 THEN <<>>
  ELSE Append(Pattern(seed, step, len - 1), (seed + step * (len - 1)) % 256)

PatternSeeds == {0, 20, 250}
PatternSteps == {0, 1, 37}

(* The arrays the client hands to the constructor: every length up to one  *)
(* more than the largest RGBA picture needs.                               *)
ClientArrays ==
  { Pattern(s, t, n) : s \in PatternSeeds, t \in PatternSteps,
                       n \in 0..(MaxDim * MaxDim * CHANNELS + 1) }

Dims == 0..MaxDim

(* The client makes one call at a time and looks at its result: a call    *)
(* starts when no result is pending.                                       *)
Idle == call.op = "none"

(* A call that returns (or throws) a Picture ends: the result is recorded  *)
(* and the arrays nobody refers to any more are collected.                 *)
EndCallWith(c, r, value) ==
  /\ Idle
  /\ call' = c
  /\ out' = r.pic
  /\ err' = r.err
  /\ ret' = value
  /\ heap' = Collect(r.heap, {arg, a.data, b.data, r.pic.data})
  /\ UNCHANGED <<a, b, arg, depth>>

EndCall(c, r) == EndCallWith(c, r, <<>>)

InitNew ==
  /\ \E d \in ClientArrays : heap = (1 :> d)
  /\ arg = 1
  /\ a = NoPicture
  /\ b = NoPicture
  /\ call = NoCall
  /\ out = NoPicture
  /\ ret = <<>>
  /\ err = "none"
  /\ depth = 0

(* new Picture(width, height, data) on the client's array.                 *)
CallNew(width, height) ==
  /\ Idle
  /\ arg # 0
  /\ EndCall([NoCall EXCEPT !.op = "new", !.width = width, !.height = height],
             Picture(heap, width, height, arg))

(* Picture.From({width, height, data}) on the client's array.              *)
CallFrom(width, height) ==
  /\ Idle
  /\ arg # 0
  /\ EndCall([NoCall EXCEPT !.op = "From", !.width = width, !.height = height],
             From(heap, [width |-> width, height |-> height, data |-> arg]))

NextNew ==
  \/ \E width \in Dims, height \in Dims : CallNew(width, height)
  \/ \E width \in Dims, height \in Dims : CallFrom(width, height)

SpecNew == InitNew /\ [][NextNew]_vars

---------------------------------------------------------------------------
(* The client asks findCoordsToConvolveKernel about any pixel coordinate,  *)
(* inside the image or next to it, and any kernel size.                    *)

InitCoords ==
  /\ heap = <<>>
  /\ arg = 0
  /\ a = NoPicture
  /\ b = NoPicture
  /\ call = NoCall
  /\ out = NoPicture
  /\ ret = <<>>
  /\ err = "none"
  /\ depth = 0

CallFindCoords(imageWidth, imageHeight, x, y, kernelWidth, kernerHeight) ==
  /\ Idle
  /\ call' = [NoCall EXCEPT !.op = "findCoordsToConvolveKernel",
                            !.width = imageWidth, !.height = imageHeight,
                            !.x = x, !.y = y,
                            !.param = <<kernelWidth, kernerHeight>>]
  /\ ret' = findCoordsToConvolveKernel(imageWidth, imageHeight, x, y,
                                       kernelWidth, kernerHeight)
  /\ out' = NoPicture
  /\ err' = "none"
  /\ UNCHANGED <<heap, a, b, arg, depth>>

NextCoords ==
  /\ Idle
  /\ \E imageWidth \in Dims, imageHeight \in Dims,
        x \in -1..MaxDim, y \in -1..MaxDim,
        kernelWidth \in 1..MaxKernel, kernerHeight \in 1..MaxKernel :
       CallFindCoords(imageWidth, imageHeight, x, y, kernelWidth, kernerHeight)

SpecCoords == InitCoords /\ [][NextCoords]_vars

---------------------------------------------------------------------------
(* The client holds one picture and convolves it.                          *)

(* Kernel.ts: identity, boxBlur, ridge2, gausianBlur3, bottom; the kernel  *)
(* of the doc comment of convolve that drags the image down; a 1x1 kernel  *)
(* that doubles, a 1x3 and a 5x1 kernel; and the even kernels of the test  *)
(* 'throws when kernel is not odd x odd' with a 2x2 one.  Every weight is  *)
(* an integer or a multiple of 1/9 or 1/16, for which the double sums      *)
(* round as the exact sums do.                                             *)
identity == [rows |-> <<<<0, 0, 0>>, <<0, 1, 0>>, <<0, 0, 0>>>>, den |-> 1]
boxBlur == [rows |-> <<<<1, 1, 1>>, <<1, 1, 1>>, <<1, 1, 1>>>>, den |-> 9]
ridge2 == [rows |-> <<<<-1, -1, -1>>, <<-1, 8, -1>>, <<-1, -1, -1>>>>, den |-> 1]
gausianBlur3 == [rows |-> <<<<1, 2, 1>>, <<2, 4, 2>>, <<1, 2, 1>>>>, den |-> 16]
bottom == [rows |-> <<<<-1, -2, -1>>, <<0, 0, 0>>, <<1, 2, 1>>>>, den |-> 1]
slidenDown == [rows |-> <<<<0, 0, 0>>, <<0, 0, 0>>, <<0, 1, 0>>>>, den |-> 1]
doubling == [rows |-> <<<<2>>>>, den |-> 1]
rowKernel == [rows |-> <<<<3, 0, -1>>>>, den |-> 1]
columnKernel == [rows |-> <<<<1>>, <<0>>, <<2>>, <<0>>, <<1>>>>, den |-> 16]
evenWide == [rows |-> <<<<1, 1>>, <<1, 1>>, <<1, 1>>>>, den |-> 1]
evenHigh == [rows |-> <<<<1, 1, 1>>, <<1, 1, 1>>>>, den |-> 1]
evenBoth == [rows |-> <<<<1, 1>>, <<1, 1>>>>, den |-> 1]

Kernels ==
  {identity, boxBlur, ridge2, gausianBlur3, bottom, slidenDown, doubling,
   rowKernel, columnKernel, evenWide, evenHigh, evenBoth}

(* The picture of the convolve test: 3x3, every pixel [20,20,20,255] but   *)
(* the centre [110,110,110,255].                                           *)
BlurFixture ==
  [width |-> 3, height |-> 3,
   bytes |-> Flatten([p \in 1..9 |->
               IF p = 5 THEN <<110, 110, 110, 255>> ELSE <<20, 20, 20, 255>>])]

(* Pictures the constructor accepts: RGBA bytes of the right length.       *)
PatternPictures ==
  { [width |-> w, height |-> h, bytes |-> Pattern(s, t, w * h * CHANNELS)] :
      w \in Dims, h \in Dims, s \in PatternSeeds, t \in PatternSteps }

(* The client built picture p from an array it no longer holds.            *)
Holds(p, id) == [width |-> p.width, height |-> p.height, data |-> id]

InitConvolve ==
  /\ \E p \in PatternPictures \cup {BlurFixture} :
       /\ heap = (1 :> p.bytes)
       /\ a = Holds(p, 1)
  /\ arg = 0
  /\ b = NoPicture
  /\ call = NoCall
  /\ out = NoPicture
  /\ ret = <<>>
  /\ err = "none"
  /\ depth = 0

CallConvolve(kernel, keepEdges) ==
  /\ Idle
  /\ a # NoPicture
  /\ EndCall([NoCall EXCEPT !.op = "convolve", !.kernel = kernel,
                            !.keepEdges = keepEdges],
             convolve(heap, a, kernel, keepEdges))

NextConvolve ==
  \E kernel \in Kernels, keepEdges \in BOOLEAN : CallConvolve(kernel, keepEdges)

SpecConvolve == InitConvolve /\ [][NextConvolve]_vars

---------------------------------------------------------------------------
(* The client holds two pictures and merges the second over the first.     *)

(* Colours and alphas of the single pixels the client merges; among them   *)
(* the pixels of the merge2 tests (white, red, reddish, blueish, empty).   *)
MergeColours ==
  {<<255, 255, 255>>, <<255, 0, 0>>, <<254, 1, 0>>, <<0, 255, 0>>,
   <<20, 110, 200>>}
MergeAlphas == {0, 2, 63, 255}

OnePixelPictures ==
  { [width |-> 1, height |-> 1, bytes |-> c \o <<al>>] :
      c \in MergeColours, al \in MergeAlphas }

(* The pictures of the test 'merges 2 pictures'.                           *)
MergeFixtureA ==
  [width |-> 3, height |-> 3,
   bytes |-> Flatten([p \in 1..9 |->
               IF p <= 7 THEN <<255, 255, 255, 255>>
               ELSE IF p = 8 THEN <<0, 0, 255, 191>> ELSE <<0, 0, 0, 0>>])]
MergeFixtureB ==
  [width |-> 2, height |-> 2,
   bytes |-> <<255, 0, 0, 63, 255, 0, 0, 255, 255, 0, 0, 63, 0, 0, 0, 0>>]

(* The pictures of the test 'does nothing for when the second picture      *)
(* pixels is out of bounds'.                                               *)
WhiteFixture ==
  [width |-> 3, height |-> 3,
   bytes |-> Flatten([p \in 1..9 |-> <<255, 255, 255, 255>>])]
ColoursFixture ==
  [width |-> 2, height |-> 2,
   bytes |-> <<255, 0, 0, 255, 0, 255, 0, 255, 0, 0, 255, 255, 0, 0, 0, 255>>]

MergeFixtures ==
  {MergeFixtureA, MergeFixtureB, WhiteFixture, ColoursFixture,
   [width |-> 2, height |-> 1, bytes |-> Pattern(20, 37, 8)],
   [width |-> 1, height |-> 2, bytes |-> Pattern(250, 37, 8)],
   [width |-> 0, height |-> 2, bytes |-> <<>>]}

(* The pairs the client merges: two single pixels, or two fixtures.        *)
MergePairs ==
  (OnePixelPictures \X OnePixelPictures) \cup (MergeFixtures \X MergeFixtures)

(* The offsets the client merges at: from before the background, where a   *)
(* foreground of MaxOffset + 1 columns stays outside, to past its start.   *)
Offsets == (-(MaxOffset + 1))..(MaxOffset + 1)

InitMerge ==
  /\ \E pq \in MergePairs :
       /\ heap = (1 :> pq[1].bytes) @@ (2 :> pq[2].bytes)
       /\ a = Holds(pq[1], 1)
       /\ b = Holds(pq[2], 2)
  /\ arg = 0
  /\ call = NoCall
  /\ out = NoPicture
  /\ ret = <<>>
  /\ err = "none"
  /\ depth = 0

CallMerge2(offsetX, offsetY) ==
  /\ Idle
  /\ a # NoPicture /\ b # NoPicture
  /\ \E r \in merge2(heap, a, b, offsetX, offsetY) :
       EndCall([NoCall EXCEPT !.op = "merge2", !.offsetX = offsetX,
                              !.offsetY = offsetY], r)

NextMerge ==
  \E offsetX \in Offsets, offsetY \in Offsets : CallMerge2(offsetX, offsetY)

SpecMerge == InitMerge /\ [][NextMerge]_vars

---------------------------------------------------------------------------
(* The client holds two pictures and an array, constructs and transforms,  *)
(* and goes on with a result in the place of one of its pictures.          *)

ChainPictures ==
  {[width |-> 2, height |-> 2, bytes |-> Pattern(20, 37, 16)],
   [width |-> 1, height |-> 1, bytes |-> <<254, 1, 0, 2>>],
   [width |-> 3, height |-> 1,
    bytes |-> <<60, 120, 180, 127, 0, 127, 255, 255, 85, 170, 171, 0>>]}

ChainBlocks ==
  {[width |-> 1, height |-> 1, bytes |-> <<0, 255, 0, 2>>],
   [width |-> 2, height |-> 1, bytes |-> <<255, 0, 0, 63, 60, 120, 180, 255>>]}

(* The callbacks the client passes to manipulateChannels.                  *)
Callbacks ==
  {[callback |-> c, param |-> <<>>] :
     c \in {"double3", "double4", "swap3", "swap4", "blackenOdd"}}
  \cup {[callback |-> "monochromize", param |-> rgb] :
          rgb \in {TRUE_GRAY_RATIO, <<Num(1), Num(0), Num(0)>>}}
  \cup {[callback |-> "binarizeColors", param |-> <<t>>] : t \in {127, 80}}
  \cup {[callback |-> "groupColors", param |-> r] : r \in {<<1, 1, 1>>, <<1, 2, 1>>}}

(* The ratios the client groups colours by.                                *)
Ratios == {<<1, 1, 1>>, <<1, 2, 1>>, <<1, 1>>}

ChainKernels == {identity, boxBlur, rowKernel, evenWide}

ResizeOffsets == {<<0, 0>>, <<-1, -1>>, <<1, 0>>}

ResizeSizes == {<<0, 2>>, <<1, 1>>, <<2, 1>>, <<2, 2>>}

(* The offsets the client merges and masks at in a chain: before the       *)
(* picture, at its start and past the start.                               *)
ChainOffsets == {-1, 0, MaxOffset}

Init ==
  /\ \E p \in ChainPictures, q \in ChainBlocks :
       /\ heap = (1 :> p.bytes) @@ (2 :> q.bytes) @@ (3 :> Pattern(250, 1, 12))
       /\ a = Holds(p, 1)
       /\ b = Holds(q, 2)
  /\ arg = 3
  /\ call = NoCall
  /\ out = NoPicture
  /\ ret = <<>>
  /\ err = "none"
  /\ depth = 0

CallManipulateChannels(cb) ==
  /\ Idle
  /\ a # NoPicture
  /\ \E r \in manipulateChannels(heap, a, cb.callback, cb.param) :
       EndCall([NoCall EXCEPT !.op = "manipulateChannels",
                              !.callback = cb.callback, !.param = cb.param], r)

CallGroupColors(colorSpaceRatios) ==
  /\ Idle
  /\ a # NoPicture
  /\ EndCall([NoCall EXCEPT !.op = "groupColors", !.param = colorSpaceRatios],
             groupColors(heap, a, colorSpaceRatios))

CallResize(offsetX, offsetY, width, height) ==
  /\ Idle
  /\ a # NoPicture
  /\ EndCall([NoCall EXCEPT !.op = "resize", !.offsetX = offsetX,
                            !.offsetY = offsetY, !.width = width, !.height = height],
             resize(heap, a, offsetX, offsetY, width, height))

CallCreateBlockSimilarityMask(offsetX, offsetY) ==
  /\ Idle
  /\ a # NoPicture /\ b # NoPicture
  /\ \E r \in createBlockSimilarityMask(heap, a, b, Num(offsetX), Num(offsetY)) :
       EndCallWith([NoCall EXCEPT !.op = "createBlockSimilarityMask",
                                  !.offsetX = offsetX, !.offsetY = offsetY], r,
                   <<Reentries(b, Num(offsetX), Num(offsetY)),
                     Placements(heap, a, b, Num(offsetX), Num(offsetY))>>)

(* The client holds a picture and a block and asks for the mask at any     *)
(* offset: before the block, inside it, at its size and past it.           *)

(* The picture of the tests (RGBA) and pictures built around the blocks.   *)
MaskFixtures ==
  {<<[width |-> 3, height |-> 2,
      bytes |-> <<60, 60, 60, 255, 70, 80, 90, 255, 70, 80, 90, 255,
                  255, 0, 0, 255, 0, 255, 0, 255, 0, 0, 255, 255>>],
     [width |-> 1, height |-> 1, bytes |-> <<60, 60, 60, 255>>]>>,
   <<[width |-> 3, height |-> 2,
      bytes |-> <<60, 60, 60, 255, 70, 80, 90, 255, 70, 80, 90, 255,
                  255, 0, 0, 255, 0, 255, 0, 255, 0, 0, 255, 255>>],
     [width |-> 2, height |-> 1, bytes |-> <<70, 80, 90, 255, 70, 80, 90, 255>>]>>,
   <<[width |-> 3, height |-> 1,
      bytes |-> <<255, 0, 0, 63, 60, 120, 180, 255, 255, 0, 0, 63>>],
     [width |-> 2, height |-> 1, bytes |-> <<255, 0, 0, 63, 60, 120, 180, 255>>]>>,
   <<[width |-> 3, height |-> 3, bytes |-> Pattern(20, 37, 36)],
     [width |-> 3, height |-> 3, bytes |-> Pattern(20, 37, 36)]>>,
   <<[width |-> 2, height |-> 3, bytes |-> Pattern(250, 1, 24)],
     [width |-> 1, height |-> 3, bytes |-> Pattern(0, 37, 12)]>>,
   <<[width |-> 1, height |-> 1, bytes |-> <<3, 0, 0, 255>>],
     [width |-> 1, height |-> 1, bytes |-> <<0, 0, 0, 255>>]>>,
   <<[width |-> 2, height |-> 1, bytes |-> <<2, 0, 0, 255, 0, 0, 0, 255>>],
     [width |-> 2, height |-> 1, bytes |-> <<0, 0, 0, 255, 0, 0, 0, 255>>]>>,
   <<[width |-> 2, height |-> 2, bytes |-> Flatten([p \in 1..4 |-> <<255, 255, 255, 255>>])],
     [width |-> 2, height |-> 2, bytes |-> Flatten([p \in 1..4 |-> <<0, 0, 0, 255>>])]>>,
   <<[width |-> 1, height |-> 2, bytes |-> <<254, 1, 0, 2, 0, 255, 0, 2>>],
     [width |-> 1, height |-> 1, bytes |-> <<0, 255, 0, 2>>]>>,
   <<[width |-> 2, height |-> 2, bytes |-> Pattern(20, 37, 16)],
     [width |-> 0, height |-> 2, bytes |-> <<>>]>>,
   <<[width |-> 0, height |-> 0, bytes |-> <<>>],
     [width |-> 1, height |-> 1, bytes |-> <<60, 60, 60, 255>>]>>}

MaskOffsets == (-(MaxOffset + 1))..(MaxOffset + 3)

InitMask ==
  /\ \E pq \in MaskFixtures :
       /\ heap = (1 :> pq[1].bytes) @@ (2 :> pq[2].bytes)
       /\ a = Holds(pq[1], 1)
       /\ b = Holds(pq[2], 2)
  /\ arg = 0
  /\ call = NoCall
  /\ out = NoPicture
  /\ ret = <<>>
  /\ err = "none"
  /\ depth = 0

NextMask ==
  /\ Idle
  /\ \E offsetX \in MaskOffsets, offsetY \in MaskOffsets :
       CallCreateBlockSimilarityMask(offsetX, offsetY)

SpecMask == InitMask /\ [][NextMask]_vars

(* The client compares pixels and lists of pixels with either Comparator.  *)

(* The pixels of the Comparator tests (P0 to P3, with and without alpha)   *)
(* and of the README.                                                      *)
ComparedPixels ==
  {<<255, 0, 0, 0>>, <<255, 0, 0, 255>>, <<0, 255, 0, 127>>, <<0, 255, 0, 0>>,
   <<255, 0, 0>>, <<0, 255, 0>>, <<254, 0, 0>>, <<255, 0, 0, 63>>,
   <<127, 255, 255, 127>>}

Policies == {"ignore", "subtract", "ignoreFirst", "multiply"}
Comparator_Policies == {"ignore", "compare", "ignoreFirst", "multiply"}

(* The lists of at most n entries, each a pixel or absent.                 *)
RECURSIVE ListsUpTo(_)
ListsUpTo(n) ==
  IF n = 0 THEN {<<>>}
  ELSE ListsUpTo(n - 1)
         \cup { Append(l, x) :
                  l \in {k \in ListsUpTo(n - 1) : Len(k) = n - 1},
                  x \in {NoPixel, <<255, 0, 0, 255>>, <<0, 255, 0, 127>>,
                         <<0, 255, 0>>} }

(* array1 and array2 of the tests, and the two with one more entry.        *)
ComparedLists ==
  ListsUpTo(MaxList)
    \cup {<<<<255, 0, 0, 255>>, <<0, 255, 0, 127>>, <<0, 255, 0, 127>>, <<0, 255, 0, 0>>>>,
          <<<<0, 255, 0, 127>>, <<255, 0, 0, 255>>, <<0, 255, 0, 0>>, <<0, 255, 0, 127>>>>,
          <<<<255, 0, 0, 255>>, <<0, 255, 0, 127>>, <<0, 255, 0, 127>>, <<0, 255, 0, 0>>,
            NoPixel>>,
          <<<<0, 255, 0, 127>>, <<255, 0, 0, 255>>, <<0, 255, 0, 0>>, <<0, 255, 0, 127>>,
            <<0, 255, 0, 127>>>>}

(* array0 of the tests, an array of one pixel and an empty one.            *)
ComparedArrays ==
  {<<255, 0, 0, 255, 0, 255, 0, 127, 0, 255, 0, 127, 0, 255, 0, 0>>,
   <<0, 255, 0, 127>>, <<>>}

ComparedArguments ==
  {List(l) : l \in ComparedLists} \cup {Typed(d) : d \in ComparedArrays}

(* No undefinedScore, or one of these.                                     *)
UndefinedScores == {Undefined, 0, 100}

InitCompare ==
  /\ heap = <<>>
  /\ arg = 0
  /\ a = NoPicture
  /\ b = NoPicture
  /\ call = NoCall
  /\ out = NoPicture
  /\ ret = <<>>
  /\ err = "none"
  /\ depth = 0

(* A call of a Comparator method ends: the number returned and the number  *)
(* of pairs gone through, or the Error thrown.                             *)
EndCompare(c, r) ==
  /\ call' = c
  /\ ret' = <<r.score, r.scored>>
  /\ err' = r.err
  /\ out' = NoPicture
  /\ UNCHANGED <<heap, a, b, arg, depth>>

CallComparePixels(pa, pb, alpha) ==
  /\ Idle
  /\ EndCompare([NoCall EXCEPT !.op = "comparePixels", !.param = <<pa, pb>>,
                                !.alpha = alpha],
                Scored(comparePixels(pa, pb, alpha), 1))

CallComparator_comparePixels(pa, pb, alpha) ==
  /\ Idle
  /\ EndCompare([NoCall EXCEPT !.op = "Comparator_comparePixels",
                                !.param = <<pa, pb>>, !.alpha = alpha],
                Scored(Comparator_comparePixels(pa, pb, alpha), 1))

CallCompareMultiplePixels(pa, pb, alpha, undefinedScore) ==
  /\ Idle
  /\ EndCompare([NoCall EXCEPT !.op = "compareMultiplePixels",
                                !.param = <<pa, pb>>, !.alpha = alpha,
                                !.undefinedScore = undefinedScore],
                compareMultiplePixels(pa, pb, alpha, undefinedScore))

CallComparator_compareMultiplePixels(sa, sb, alpha, undefinedScore) ==
  /\ Idle
  /\ EndCompare([NoCall EXCEPT !.op = "Comparator_compareMultiplePixels",
                                !.param = <<List(sa), List(sb)>>, !.alpha = alpha,
                                !.undefinedScore = undefinedScore],
                Comparator_compareMultiplePixels(sa, sb, alpha, undefinedScore))

NextCompare ==
  /\ Idle
  /\ \/ \E pa \in ComparedPixels, pb \in ComparedPixels, alpha \in Policies :
          CallComparePixels(pa, pb, alpha)
     \/ \E pa \in ComparedPixels, pb \in ComparedPixels,
           alpha \in Comparator_Policies :
          CallComparator_comparePixels(pa, pb, alpha)
     \/ \E pa \in ComparedArguments, pb \in ComparedArguments,
           alpha \in Policies, undefinedScore \in UndefinedScores :
          CallCompareMultiplePixels(pa, pb, alpha, undefinedScore)
     \/ \E sa \in ComparedLists, sb \in ComparedLists,
           alpha \in Comparator_Policies, undefinedScore \in UndefinedScores :
          CallComparator_compareMultiplePixels(sa, sb, alpha, undefinedScore)

SpecCompare == InitCompare /\ [][NextCompare]_vars

(* The client goes on with the Picture returned in the place of its first  *)
(* or of its second picture.                                               *)
Adopt(first) ==
  /\ ~Idle
  /\ err = "none"
  /\ out # NoPicture
  /\ depth < MaxDepth
  /\ a' = IF first THEN out ELSE a
  /\ b' = IF first THEN b ELSE out
  /\ out' = NoPicture
  /\ call' = NoCall
  /\ ret' = <<>>
  /\ depth' = depth + 1
  /\ heap' = Collect(heap, {arg, a'.data, b'.data})
  /\ UNCHANGED <<arg, err>>

Next ==
  \/ \E width \in Dims, height \in 1..2 : CallNew(width, height)
  \/ \E width \in Dims, height \in 1..2 : CallFrom(width, height)
  \/ \E cb \in Callbacks : CallManipulateChannels(cb)
  \/ \E colorSpaceRatios \in Ratios : CallGroupColors(colorSpaceRatios)
  \/ \E kernel \in ChainKernels, keepEdges \in BOOLEAN : CallConvolve(kernel, keepEdges)
  \/ \E o \in ResizeOffsets, size \in ResizeSizes :
       CallResize(o[1], o[2], size[1], size[2])
  \/ \E offsetX \in ChainOffsets, offsetY \in ChainOffsets :
       CallMerge2(offsetX, offsetY)
  \/ \E offsetX \in ChainOffsets, offsetY \in ChainOffsets :
       CallCreateBlockSimilarityMask(offsetX, offsetY)
  \/ \E first \in BOOLEAN : Adopt(first)

Spec == Init /\ [][Next]_vars

---------------------------------------------------------------------------
(* The client resizes a picture it keeps (b is the picture a starts as),   *)
(* goes on once with a result that pads the picture, and resizes that      *)
(* again.                                                                  *)

ResizePictures ==
  { [width |-> d[1], height |-> d[2],
     bytes |-> Pattern(20, 37, d[1] * d[2] * CHANNELS)] :
      d \in {<<0, 2>>, <<1, 2>>, <<2, 1>>, <<2, 2>>} }

(* Offsets from before the picture to past its end, sizes from none to     *)
(* more than the picture.                                                  *)
WindowOffsets == (-MaxOffset)..MaxOffset

WindowSizes == 0..(MaxDim + 1)

InitResize ==
  /\ \E p \in ResizePictures :
       /\ heap = (1 :> p.bytes)
       /\ a = Holds(p, 1)
       /\ b = Holds(p, 1)
  /\ arg = 0
  /\ call = NoCall
  /\ out = NoPicture
  /\ ret = <<>>
  /\ err = "none"
  /\ depth = 0

(* The last call padded the picture: its window starts at or before the    *)
(* picture's first pixel and ends at or after its last.                    *)
Padded ==
  /\ call.op = "resize"
  /\ call.offsetX <= 0 /\ call.offsetY <= 0
  /\ call.offsetX + call.width >= a.width
  /\ call.offsetY + call.height >= a.height

NextResize ==
  \/ \E offsetX \in WindowOffsets, offsetY \in WindowOffsets,
         width \in WindowSizes, height \in WindowSizes :
       CallResize(offsetX, offsetY, width, height)
  \/ depth = 0 /\ Padded /\ Adopt(TRUE)

SpecResize == InitResize /\ [][NextResize]_vars

---------------------------------------------------------------------------
(* The client builds a picture from an array it keeps, calls a method on   *)
(* it, and writes a byte into an array it can reach: the one it handed to  *)
(* the constructor, the data of the Picture returned, or the data of the   *)
(* object returned.                                                        *)

(* The client's arrays: RGBA and RGB, one pixel and two.                   *)
ShareArrays ==
  {<<255, 0, 0, 63, 60, 120, 180, 255>>, <<254, 1, 0, 255>>,
   <<250, 251, 252, 253, 254, 255>>, <<60, 120, 180>>}

(* The state after a = new Picture(width, height, d), b a one-pixel        *)
(* picture of its own.                                                     *)
InitShare ==
  /\ \E d \in ShareArrays, width \in 1..2, height \in 1..2 :
       LET r == Picture((1 :> d) @@ (2 :> <<0, 255, 0, 2>>), width, height, 1)
       IN  /\ r.err = "none"
           /\ heap = r.heap
           /\ a = r.pic
  /\ b = [width |-> 1, height |-> 1, data |-> 2]
  /\ arg = 1
  /\ call = NoCall
  /\ out = NoPicture
  /\ ret = <<>>
  /\ err = "none"
  /\ depth = 0

(* The array of the object the client got from toObject or                 *)
(* toNoAlphaObject, while it holds one.                                    *)
ObjectArrays ==
  IF call.op \in {"toObject", "toNoAlphaObject", "FromObject"}
  THEN {ret[1].data} ELSE {}

(* A call that returns an object ends.                                     *)
EndObject(c, r) ==
  /\ Idle
  /\ call' = c
  /\ out' = NoPicture
  /\ err' = "none"
  /\ ret' = <<r.obj>>
  /\ heap' = Collect(r.heap, {arg, a.data, b.data, r.obj.data})
  /\ UNCHANGED <<a, b, arg, depth>>

CallToObject ==
  /\ Idle
  /\ EndObject([NoCall EXCEPT !.op = "toObject"], toObject(heap, a))

CallToNoAlphaObject ==
  /\ Idle
  /\ EndObject([NoCall EXCEPT !.op = "toNoAlphaObject"], toNoAlphaObject(heap, a))

(* Picture.From(object) on the object the last call returned.              *)
CallFromObject ==
  /\ call.op \in {"toObject", "toNoAlphaObject"}
  /\ call.written = 0
  /\ LET r == From(heap, ret[1])
     IN  /\ call' = [NoCall EXCEPT !.op = "FromObject"]
         /\ out' = r.pic
         /\ err' = r.err
         /\ heap' = Collect(r.heap, {arg, a.data, b.data, r.pic.data, ret[1].data})
  /\ UNCHANGED <<a, b, arg, ret, depth>>

(* The arrays the client can reach by name.                                *)
Reachable(target) ==
  CASE target = "argument" -> {arg} \ {0}
    [] target = "output" -> {out.data} \ {0}
    [] target = "object" -> ObjectArrays

(* array[i] = v, once after a call.                                        *)
Write(target, i, v) ==
  /\ ~Idle
  /\ call.written = 0
  /\ \E id \in Reachable(target) :
       /\ id \in DOMAIN heap
       /\ i < Len(heap[id])
       /\ heap' = WriteByte(heap, id, i, v)
       /\ call' = [call EXCEPT !.written = id, !.x = i, !.y = v]
  /\ UNCHANGED <<a, b, arg, out, ret, err, depth>>

WrittenValues == {0, 255}

NextShare ==
  \/ \E width \in 1..2, height \in 1..2 : CallNew(width, height)
  \/ \E width \in 1..2, height \in 1..2 : CallFrom(width, height)
  \/ \E cb \in {c \in Callbacks : c.callback \in {"swap3", "double4"}} :
       CallManipulateChannels(cb)
  \/ CallGroupColors(<<1, 1, 1>>)
  \/ \E keepEdges \in BOOLEAN : CallConvolve(identity, keepEdges)
  \/ \E offsetX \in {-1, 0}, width \in 1..2, height \in 1..2 :
       CallResize(offsetX, 0, width, height)
  \/ \E offsetX \in {0, 1} : CallMerge2(offsetX, 0)
  \/ \E offsetX \in {0, 1} : CallCreateBlockSimilarityMask(offsetX, 0)
  \/ CallToObject
  \/ CallToNoAlphaObject
  \/ CallFromObject
  \/ \E target \in {"argument", "output", "object"}, i \in 0..(2 * CHANNELS - 1),
         v \in WrittenValues : Write(target, i, v)

SpecShare == InitShare /\ [][NextShare]_vars

---------------------------------------------------------------------------
(* The client holds a background, a second picture and an array; it builds *)
(* a third picture from the array and merges the two over the background   *)
(* in one order and in the other, and each alone.                          *)

(* Backgrounds, second pictures and arrays: the pictures of the merge2     *)
(* tests, and pixels whose blend is halfway between two bytes.             *)
TwiceFixtures ==
  {<<WhiteFixture, ColoursFixture, <<255, 0, 0, 63>>>>,
   <<MergeFixtureA, MergeFixtureB, <<0, 255, 0, 2, 20, 110, 200, 255>>>>,
   <<[width |-> 2, height |-> 2,
      bytes |-> <<254, 1, 0, 2, 254, 1, 0, 2, 254, 1, 0, 2, 0, 0, 0, 0>>],
     [width |-> 1, height |-> 1, bytes |-> <<0, 255, 0, 2>>],
     <<0, 255, 0, 2>>>>}

InitTwice ==
  /\ \E f \in TwiceFixtures :
       /\ heap = (1 :> f[1].bytes) @@ (2 :> f[2].bytes) @@ (3 :> f[3])
       /\ a = Holds(f[1], 1)
       /\ b = Holds(f[2], 2)
  /\ arg = 3
  /\ call = NoCall
  /\ out = NoPicture
  /\ ret = <<>>
  /\ err = "none"
  /\ depth = 0

(* The contents of the data of the Pictures in a set of results.           *)
Datas(results) == { r.heap[r.pic.data] : r \in results }

(* first.merge2(second, ...) for every Picture a merge can have returned.  *)
Chained(results, h, second, offsetX, offsetY) ==
  UNION { merge2(r.heap, r.pic, second, offsetX, offsetY) : r \in results }

(* const c = new Picture(width, height, d), then                           *)
(* a.merge2(b, o1).merge2(c, o2), a.merge2(c, o2).merge2(b, o1),             *)
(* a.merge2(b, o1) and a.merge2(c, o2).  The call returns the first; ret    *)
(* holds the data the second, the third, the fourth and the first can      *)
(* have, in this order.                                                    *)
CallMerge2Twice(offsetX, offsetY, x, y, width, height) ==
  /\ Idle
  /\ arg # 0
  /\ LET built == Picture(heap, width, height, arg)
         c == built.pic
         h == built.heap
     IN  /\ built.err = "none"
         /\ \E r \in Chained(merge2(h, a, b, offsetX, offsetY), h, c, x, y) :
              /\ out' = r.pic
              /\ heap' = Collect(r.heap, {arg, a.data, b.data, r.pic.data})
         /\ ret' = <<Datas(Chained(merge2(h, a, c, x, y), h, b, offsetX, offsetY)),
                     Datas(merge2(h, a, b, offsetX, offsetY)),
                     Datas(merge2(h, a, c, x, y)),
                     Datas(Chained(merge2(h, a, b, offsetX, offsetY), h, c, x, y))>>
  /\ call' = [NoCall EXCEPT !.op = "merge2 twice", !.offsetX = offsetX,
                            !.offsetY = offsetY, !.x = x, !.y = y,
                            !.width = width, !.height = height]
  /\ err' = "none"
  /\ UNCHANGED <<a, b, arg, depth>>

NextTwice ==
  /\ Idle
  /\ \E offsetX \in Offsets, offsetY \in Offsets, x \in Offsets, y \in Offsets,
        width \in 1..2, height \in 1..2 :
       CallMerge2Twice(offsetX, offsetY, x, y, width, height)

SpecTwice == InitTwice /\ [][NextTwice]_vars

---------------------------------------------------------------------------
(* The client holds a picture of two pixels whose channels run through     *)
(* every byte value, and maps its channels.                                *)

ByteValues == 0..MAX_PIXEL

ChannelAlphas == {0, 127, 255}

ChannelPictures ==
  { [width |-> 2, height |-> 1,
     bytes |-> <<v, MAX_PIXEL - v, (v + 85) % 256, alpha,
                 MAX_PIXEL - v, (v + 170) % 256, v, DEFAULT_ALPHA>>] :
      v \in ByteValues, alpha \in ChannelAlphas }

InitChannels ==
  /\ \E p \in ChannelPictures :
       /\ heap = (1 :> p.bytes)
       /\ a = Holds(p, 1)
  /\ arg = 0
  /\ b = NoPicture
  /\ call = NoCall
  /\ out = NoPicture
  /\ ret = <<>>
  /\ err = "none"
  /\ depth = 0

NextChannels ==
  \/ \E cb \in Callbacks : CallManipulateChannels(cb)
  \/ \E colorSpaceRatios \in Ratios : CallGroupColors(colorSpaceRatios)

SpecChannels == InitChannels /\ [][NextChannels]_vars

---------------------------------------------------------------------------
(* C1: construction (new Picture / Picture.From) from an array d with      *)
(* |d| = W*H*3 succeeds and stores W*H*4 bytes, pixel p holding d[3p],     *)
(* d[3p+1], d[3p+2] and then 255; with |d| = W*H*4 it stores d byte for    *)
(* byte; with any other length it throws and returns no Picture.           *)
C1_Construction ==
  call.op \in {"new", "From"} =>
    LET d == heap[arg]
        n == call.width * call.height
    IN  /\ Len(d) = n * 3 =>
             /\ err = "none"
             /\ out.width = call.width /\ out.height = call.height
             /\ Len(DataOf(out)) = n * 4
             /\ \A p \in 0..(n - 1) :
                  /\ DataOf(out)[4 * p + 1] = d[3 * p + 1]
                  /\ DataOf(out)[4 * p + 2] = d[3 * p + 2]
                  /\ DataOf(out)[4 * p + 3] = d[3 * p + 3]
                  /\ DataOf(out)[4 * p + 4] = 255
        /\ Len(d) = n * 4 =>
             /\ err = "none"
             /\ out.width = call.width /\ out.height = call.height
             /\ DataOf(out) = d
        /\ (Len(d) # n * 3 /\ Len(d) # n * 4) =>
             /\ err # "none"
             /\ out = NoPicture

(* A 3-channel construction of at least two pixels with varied bytes.      *)
C1_Witness ==
  /\ call.op = "new"
  /\ call.width * call.height >= 2
  /\ Len(heap[arg]) = call.width * call.height * 3
  /\ heap[arg][1] # heap[arg][2]
  /\ err = "none"
  /\ out # NoPicture

---------------------------------------------------------------------------
(* C2: whatever the client constructs and transforms, and however it goes  *)
(* on with the results, every Picture it holds or is returned has          *)
(* data.length = width * height * 4.                                       *)
C2_LengthInvariant ==
  \A p \in {a, b, out} :
    p # NoPicture =>
      /\ p.data \in DOMAIN heap
      /\ Len(heap[p.data]) = p.width * p.height * 4

(* A transform with a 3-channel callback has returned a Picture of two     *)
(* pixels or more, applied to what an earlier operation returned.          *)
C2_Witness ==
  /\ depth >= 1
  /\ call.op = "manipulateChannels" /\ call.callback = "swap3"
  /\ out # NoPicture
  /\ out.width * out.height >= 2
  /\ Len(heap[out.data]) = out.width * out.height * 4

---------------------------------------------------------------------------
(* C3: for odd kw and kh, findCoordsToConvolveKernel returns exactly kw*kh *)
(* entries for every (x, y); entry i (from 0) is the linear index          *)
(* (y+dy)*W + (x+dx) with dx = floor(kw/2) - (i mod kw) and                *)
(* dy = floor(kh/2) - floor(i/kw) when that cell is inside the image, and  *)
(* undefined otherwise; a 3x3 kernel at corner (0,0) of a 3x3 image has    *)
(* exactly 4 entries present and 5 absent.                                 *)
C3_KernelIndices ==
  (call.op = "findCoordsToConvolveKernel"
     /\ call.param[1] % 2 = 1 /\ call.param[2] % 2 = 1) =>
    LET W == call.width
        H == call.height
        kw == call.param[1]
        kh == call.param[2]
    IN  /\ Len(ret) = kw * kh
        /\ \A i \in 0..(kw * kh - 1) :
             LET dx == (kw \div 2) - (i % kw)
                 dy == (kh \div 2) - (i \div kw)
             IN  ret[i + 1] =
                   IF /\ 0 <= call.x + dx /\ call.x + dx < W
                      /\ 0 <= call.y + dy /\ call.y + dy < H
                   THEN (call.y + dy) * W + (call.x + dx)
                   ELSE Undefined
        /\ (W = 3 /\ H = 3 /\ kw = 3 /\ kh = 3 /\ call.x = 0 /\ call.y = 0) =>
             /\ Cardinality({i \in 1..9 : ret[i] # Undefined}) = 4
             /\ Cardinality({i \in 1..9 : ret[i] = Undefined}) = 5

(* The corner of the test 'tests coordinate(0, 0)'.                        *)
C3_Witness ==
  /\ call.op = "findCoordsToConvolveKernel"
  /\ call.width = 3 /\ call.height = 3 /\ call.x = 0 /\ call.y = 0
  /\ call.param = <<3, 3>>
  /\ ret = <<4, 3, Undefined, 1, 0, Undefined, Undefined, Undefined, Undefined>>

---------------------------------------------------------------------------
(* What the claims about convolve speak of.                                *)

(* Byte number c (0: R, 1: G, 2: B, 3: alpha) of pixel (x, y) of data.     *)
ByteAt(data, width, x, y, c) == data[(y * width + x) * 4 + c + 1]

(* The window of a kw x kh kernel centred on (x, y) has a cell outside a   *)
(* W x H image.                                                            *)
WindowLeavesImage(W, H, x, y, kw, kh) ==
  \/ x - (kw \div 2) < 0 \/ x + (kw \div 2) >= W
  \/ y - (kh \div 2) < 0 \/ y + (kh \div 2) >= H

RECURSIVE SumOver(_, _, _)
SumOver(S, F(_), acc) ==
  IF S = {} THEN acc
  ELSE LET e == CHOOSE e \in S : TRUE
       IN  SumOver(S \ {e}, F, acc + F(e))

(* v is the number n/d stored in a byte: 0 for n/d <= 0, 255 for           *)
(* n/d >= 255, else the nearest integer, the even one of two nearest.      *)
IsStored(v, n, d) ==
  IF n <= 0 THEN v = 0
  ELSE IF n >= 255 * d THEN v = 255
  ELSE /\ 2 * Abs(v * d - n) <= d
       /\ (2 * Abs(v * d - n) = d => v % 2 = 0)

(* C4: convolve throws for every kernel whose width (the length of its     *)
(* first row) or height (its number of rows) is even: no Picture is        *)
(* returned and the input picture and its data are as before the call.     *)
C4_EvenKernelRejected ==
  [][(/\ call'.op = "convolve"
      /\ call.op = "none"
      /\ \/ Len(call'.kernel.rows[1]) % 2 = 0
         \/ Len(call'.kernel.rows) % 2 = 0)
       => /\ err' # "none"
          /\ out' = NoPicture
          /\ a' = a
          /\ heap'[a.data] = heap[a.data]]_vars

(* The 3-wide, 2-high kernel of the test was refused on a picture with     *)
(* pixels.                                                                 *)
C4_Witness ==
  /\ call.op = "convolve"
  /\ call.kernel = evenHigh
  /\ Len(DataOf(a)) > 0
  /\ err = "Kernel is expected to have odd height"
  /\ out = NoPicture

(* C5 as claimed: the identity kernel with keepEdges = true gives every    *)
(* pixel the source's R, G, B and alpha 255.                               *)
C5_Original ==
  (call.op = "convolve" /\ call.kernel = identity /\ call.keepEdges) =>
    /\ err = "none"
    /\ out.width = a.width /\ out.height = a.height
    /\ \A x \in 0..(a.width - 1), y \in 0..(a.height - 1) :
         /\ \A c \in 0..2 : ByteAt(DataOf(out), a.width, x, y, c)
                              = ByteAt(DataOf(a), a.width, x, y, c)
         /\ ByteAt(DataOf(out), a.width, x, y, 3) = 255

(* C5 as amended: the identity kernel with keepEdges = true gives every    *)
(* pixel the source's R, G, B; the alpha is 255 for a pixel whose 3x3      *)
(* window lies inside the image and the source's alpha for a pixel on the  *)
(* border.                                                                 *)
C5_Amended ==
  (call.op = "convolve" /\ call.kernel = identity /\ call.keepEdges) =>
    /\ err = "none"
    /\ out.width = a.width /\ out.height = a.height
    /\ \A x \in 0..(a.width - 1), y \in 0..(a.height - 1) :
         /\ \A c \in 0..2 : ByteAt(DataOf(out), a.width, x, y, c)
                              = ByteAt(DataOf(a), a.width, x, y, c)
         /\ ByteAt(DataOf(out), a.width, x, y, 3) =
              IF 1 <= x /\ x <= a.width - 2 /\ 1 <= y /\ y <= a.height - 2
              THEN 255
              ELSE ByteAt(DataOf(a), a.width, x, y, 3)

(* A 3x3 picture whose centre and corner are not opaque: the centre came   *)
(* out opaque, the corner as it was.                                       *)
C5_Witness ==
  /\ call.op = "convolve" /\ call.kernel = identity /\ call.keepEdges
  /\ a.width = 3 /\ a.height = 3
  /\ ByteAt(DataOf(a), 3, 1, 1, 3) # 255
  /\ ByteAt(DataOf(a), 3, 0, 0, 3) \notin {0, 255}
  /\ out # NoPicture
  /\ ByteAt(DataOf(out), 3, 1, 1, 3) = 255
  /\ ByteAt(DataOf(out), 3, 0, 0, 3) = ByteAt(DataOf(a), 3, 0, 0, 3)

(* C6: with keepEdges = true every pixel whose kernel window has a cell    *)
(* outside the image has the source's four bytes; when the kernel is       *)
(* wider or higher than the image the output data is the input data.       *)
C6_EdgesKept ==
  (call.op = "convolve" /\ call.keepEdges /\ err = "none") =>
    LET kw == Len(call.kernel.rows[1])
        kh == Len(call.kernel.rows)
    IN  /\ \A x \in 0..(a.width - 1), y \in 0..(a.height - 1) :
             WindowLeavesImage(a.width, a.height, x, y, kw, kh) =>
               \A c \in 0..3 : ByteAt(DataOf(out), a.width, x, y, c)
                                 = ByteAt(DataOf(a), a.width, x, y, c)
        /\ (kw > a.width \/ kh > a.height) => DataOf(out) = DataOf(a)

(* ridge2 on a 3x3 picture: the centre changed, the corner did not; its    *)
(* pixels are not opaque and not equal to their neighbourhood sums.        *)
C6_Witness ==
  /\ call.op = "convolve" /\ call.kernel = ridge2 /\ call.keepEdges
  /\ a.width = 3 /\ a.height = 3
  /\ out # NoPicture
  /\ DataOf(out) # DataOf(a)
  /\ ByteAt(DataOf(a), 3, 0, 0, 3) # 255
  /\ SubSeq(DataOf(out), 1, 4) = SubSeq(DataOf(a), 1, 4)

(* C7: every processed pixel (keepEdges = false, or the whole window       *)
(* inside the image) has, in each of R, G, B, the stored value of the sum  *)
(* over kernel rows r and columns k (from 0) of kernel[r][k] times the     *)
(* source channel at (x + floor(kw/2) - k, y + floor(kh/2) - r), cells     *)
(* outside the image adding 0, and alpha 255.  So slidenDown gives         *)
(* output(x, y) = source(x, y - 1), and the box blur of the 3x3 all-20     *)
(* picture with centre 110 gives centre 30 and the border unchanged.       *)
C7_ProcessedPixel ==
  (call.op = "convolve" /\ err = "none") =>
    LET kw == Len(call.kernel.rows[1])
        kh == Len(call.kernel.rows)
        W == a.width
        H == a.height
        src == DataOf(a)
        res == DataOf(out)
        Cells(x, y) ==
          { rk \in (0..(kh - 1)) \X (0..(kw - 1)) :
              /\ 0 <= x + (kw \div 2) - rk[2] /\ x + (kw \div 2) - rk[2] < W
              /\ 0 <= y + (kh \div 2) - rk[1] /\ y + (kh \div 2) - rk[1] < H }
        Sum(x, y, c) ==
          LET Term(rk) == call.kernel.rows[rk[1] + 1][rk[2] + 1]
                            * ByteAt(src, W, x + (kw \div 2) - rk[2],
                                     y + (kh \div 2) - rk[1], c)
          IN  SumOver(Cells(x, y), Term, 0)
    IN  /\ \A x \in 0..(W - 1), y \in 0..(H - 1) :
             (~call.keepEdges \/ ~WindowLeavesImage(W, H, x, y, kw, kh)) =>
               /\ \A c \in 0..2 :
                    IsStored(ByteAt(res, W, x, y, c), Sum(x, y, c), call.kernel.den)
               /\ ByteAt(res, W, x, y, 3) = 255
        /\ call.kernel = slidenDown =>
             \A x \in 0..(W - 1), y \in 1..(H - 1) :
               (~call.keepEdges \/ ~WindowLeavesImage(W, H, x, y, 3, 3)) =>
                 \A c \in 0..2 : ByteAt(res, W, x, y, c) = ByteAt(src, W, x, y - 1, c)
        /\ (src = BlurFixture.bytes /\ W = 3 /\ call.kernel = boxBlur
              /\ call.keepEdges) =>
             res = Flatten([p \in 1..9 |->
                     IF p = 5 THEN <<30, 30, 30, 255>> ELSE <<20, 20, 20, 255>>])

(* slidenDown without keepEdges moved a row of distinct bytes down and     *)
(* made a transparent pixel opaque.                                        *)
C7_Witness ==
  /\ call.op = "convolve" /\ call.kernel = slidenDown /\ ~call.keepEdges
  /\ a.width = 2 /\ a.height = 2
  /\ out # NoPicture
  /\ SubSeq(DataOf(a), 1, 3) # SubSeq(DataOf(a), 9, 11)
  /\ SubSeq(DataOf(out), 9, 11) = SubSeq(DataOf(a), 1, 3)
  /\ DataOf(a)[12] # 255
  /\ DataOf(out)[12] = 255


---------------------------------------------------------------------------
(* What the claims about merge2 speak of.                                  *)

(* The four bytes of pixel (x, y) of data.                                 *)
PixelOf(data, width, x, y) ==
  SubSeq(data, (y * width + x) * 4 + 1, (y * width + x) * 4 + 4)

Merged == call.op = "merge2" /\ err = "none"

(* The foreground pixels (fx, fy) of b that the call maps inside a.        *)
MappedInside ==
  { f \in (0..(b.width - 1)) \X (0..(b.height - 1)) :
      /\ call.offsetX + f[1] >= 0 /\ call.offsetX + f[1] < a.width
      /\ call.offsetY + f[2] >= 0 /\ call.offsetY + f[2] < a.height }

BackgroundAt(f) ==
  PixelOf(DataOf(a), a.width, call.offsetX + f[1], call.offsetY + f[2])
ForegroundAt(f) == PixelOf(DataOf(b), b.width, f[1], f[2])
OutputAt(f) ==
  PixelOf(DataOf(out), out.width, call.offsetX + f[1], call.offsetY + f[2])

(* With A and B the alpha bytes, alphaA*(1-alphaB) + alphaB is             *)
(* AlphaSum(A, B) / 255^2, and the blend of the channel bytes cA and cB is *)
(* BlendSum(cA, A, cB, B) / AlphaSum(A, B).                                *)
AlphaSum(A, B) == A * (255 - B) + 255 * B
BlendSum(cA, A, cB, B) == cA * A * (255 - B) + cB * 255 * B

(* round(n/d) for n >= 0 and d > 0, a half rounded up as Math.round does.  *)
Round(n, d) == (2 * n + d) \div (2 * d)

(* C8 as stated: after merge2, at every foreground pixel mapped inside the *)
(* background whose two alphas are not both 0, the divisor is not 0, the   *)
(* output alpha is round(255 * (alphaA*(1-alphaB) + alphaB)) and each      *)
(* colour channel is round of the blend's quotient, within 0..255.         *)
C8_Original ==
  Merged =>
    \A f \in MappedInside :
      LET pa == BackgroundAt(f)
          pb == ForegroundAt(f)
          po == OutputAt(f)
          N  == AlphaSum(pa[4], pb[4])
      IN  (pa[4] # 0 \/ pb[4] # 0) =>
            /\ N > 0
            /\ po[4] = Min(255, Round(N, 255))
            /\ \A k \in 1..3 :
                 po[k] = Min(255, Round(BlendSum(pa[k], pa[4], pb[k], pb[4]), N))

(* C8 amended: after merge2, at every foreground pixel mapped inside the   *)
(* background whose two alphas are not both 0, the divisor is not 0, the   *)
(* output alpha is the integer nearest to 255 * (alphaA*(1-alphaB) +       *)
(* alphaB), which is never halfway between two integers, and each colour   *)
(* channel is an integer of 0..255 nearest to the blend's quotient: either *)
(* of the two nearest when the quotient is exactly halfway between them.   *)
C8_Amended ==
  Merged =>
    \A f \in MappedInside :
      LET pa == BackgroundAt(f)
          pb == ForegroundAt(f)
          po == OutputAt(f)
          N  == AlphaSum(pa[4], pb[4])
      IN  (pa[4] # 0 \/ pb[4] # 0) =>
            /\ N > 0
            /\ po[4] \in 0..255
            /\ 2 * Abs(po[4] * 255 - N) < 255
            /\ \A k \in 1..3 :
                 /\ po[k] \in 0..255
                 /\ 2 * Abs(po[k] * N - BlendSum(pa[k], pa[4], pb[k], pb[4])) <= N

(* The merge of the test 'merges 2 pictures' has given the picture the     *)
(* test expects: a blend of two half-transparent pixels among its pixels.  *)
C8_Witness ==
  /\ Merged
  /\ DataOf(a) = MergeFixtureA.bytes /\ DataOf(b) = MergeFixtureB.bytes
  /\ call.offsetX = 1 /\ call.offsetY = 1
  /\ out.width = 3 /\ out.height = 3
  /\ DataOf(out) =
       <<255, 255, 255, 255, 255, 255, 255, 255, 255, 255, 255, 255,
         255, 255, 255, 255, 255, 192, 192, 255, 255, 0, 0, 255,
         255, 255, 255, 255, 78, 0, 177, 207, 0, 0, 0, 0>>

(* C9: after merge2, at every foreground pixel of alpha 255 mapped inside  *)
(* the background, whatever the background pixel, the output pixel is the  *)
(* foreground pixel's R, G, B with alpha 255.                              *)
C9_OpaqueForeground ==
  Merged =>
    \A f \in MappedInside :
      ForegroundAt(f)[4] = 255 =>
        OutputAt(f) = SubSeq(ForegroundAt(f), 1, 3) \o <<255>>

(* An opaque foreground pixel has been merged onto a background pixel of   *)
(* alpha 0 and of another colour, and onto one of an alpha above 0.        *)
C9_Witness ==
  /\ Merged
  /\ \E f \in MappedInside :
       /\ ForegroundAt(f)[4] = 255
       /\ BackgroundAt(f)[4] = 0
       /\ SubSeq(BackgroundAt(f), 1, 3) # SubSeq(ForegroundAt(f), 1, 3)
       /\ OutputAt(f) = ForegroundAt(f)
  /\ \E pq \in MergePairs :
       /\ pq[2].bytes[4] = 255 /\ pq[1].bytes[4] \in 1..254
       /\ pq[1].bytes # pq[2].bytes

(* C10: after merge2, at every foreground pixel of alpha 0 mapped inside   *)
(* the background, the output pixel is the background pixel in all four    *)
(* channels, the background's alpha being 0 or above 0.                    *)
C10_TransparentForeground ==
  Merged =>
    \A f \in MappedInside :
      ForegroundAt(f)[4] = 0 => OutputAt(f) = BackgroundAt(f)

(* A transparent foreground pixel of another colour has been merged onto a *)
(* background pixel of an alpha strictly between 0 and 255.                *)
C10_Witness ==
  /\ Merged
  /\ \E f \in MappedInside :
       /\ ForegroundAt(f)[4] = 0
       /\ BackgroundAt(f)[4] \in 1..254
       /\ SubSeq(BackgroundAt(f), 1, 3) # SubSeq(ForegroundAt(f), 1, 3)
       /\ OutputAt(f) = BackgroundAt(f)

(* Pixel (x, y) of the background is where the call puts a foreground      *)
(* pixel.                                                                  *)
Covered(x, y) ==
  \E f \in (0..(b.width - 1)) \X (0..(b.height - 1)) :
    call.offsetX + f[1] = x /\ call.offsetY + f[2] = y

(* C11: merge2(a, b, offsetX, offsetY) returns, for every offset, a        *)
(* picture of a's width and height in which every pixel of a that no       *)
(* foreground pixel is put on is byte for byte a's; a foreground pixel put *)
(* outside a changes nothing.                                              *)
C11_MergeFrame ==
  call.op = "merge2" =>
    /\ err = "none"
    /\ out.width = a.width /\ out.height = a.height
    /\ Len(DataOf(out)) = Len(DataOf(a))
    /\ \A x \in 0..(a.width - 1), y \in 0..(a.height - 1) :
         ~Covered(x, y) =>
           PixelOf(DataOf(out), out.width, x, y) = PixelOf(DataOf(a), a.width, x, y)

(* A foreground has been merged at a negative offset: some of its pixels   *)
(* fell outside the background, one fell inside and changed it, and a      *)
(* background pixel next to the row's end, where a pixel outside would     *)
(* land if it wrapped, has another colour than that pixel.                 *)
C11_Witness ==
  /\ Merged
  /\ call.offsetX < 0
  /\ MappedInside # {}
  /\ MappedInside # (0..(b.width - 1)) \X (0..(b.height - 1))
  /\ \E f \in MappedInside : OutputAt(f) # BackgroundAt(f)
  /\ \E x \in 0..(a.width - 1), y \in 0..(a.height - 1) :
       /\ ~Covered(x, y)
       /\ PixelOf(DataOf(out), out.width, x, y) = PixelOf(DataOf(a), a.width, x, y)

---------------------------------------------------------------------------
(* What the claims about createBlockSimilarityMask speak of.               *)

Masked == call.op = "createBlockSimilarityMask" /\ err = "none"

(* The pixels (x, y) of the main picture.                                  *)
MainPixels == (0..(a.width - 1)) \X (0..(a.height - 1))

(* The origins of the tile placements that reach into the main picture:    *)
(* the block repeats from the offset in steps of its width and height.     *)
TileOrigins ==
  { t \in ((1 - b.width)..(a.width - 1)) \X ((1 - b.height)..(a.height - 1)) :
      /\ (t[1] - call.offsetX) % b.width = 0
      /\ (t[2] - call.offsetY) % b.height = 0 }

(* The main pixels the placement at origin t covers.                       *)
TilePixels(t) ==
  { q \in MainPixels : /\ q[1] >= t[1] /\ q[1] < t[1] + b.width
                       /\ q[2] >= t[2] /\ q[2] < t[2] + b.height }

(* The region gathered for the placement at t, absent outside main, and    *)
(* its aggregate score against the block under the multiply policy.        *)
GatheredAt(t) ==
  Gather(DataOf(a), a.width, a.height, t[1], t[2], b.width, b.height, t[2],
         [pixelIds |-> <<>>, channels |-> <<>>]).channels

AggregateAt(t) ==
  compareMultiplePixels(List(GatheredAt(t)), Typed(DataOf(b)), "multiply",
                        255 * NO_ALPHA_CHANNELS).score

AlphaAt(q) == PixelOf(DataOf(out), out.width, q[1], q[2])[CHANNELS]

(* C12: after createBlockSimilarityMask with a block of positive width and *)
(* height, the alpha of every main pixel a placement covers is the         *)
(* placement's aggregate multiply score divided by the block's channel     *)
(* count width * height * 3, stored with saturation to 0..255.             *)
C12_ChannelCountScore ==
  (Masked /\ b.width > 0 /\ b.height > 0) =>
    \A t \in TileOrigins : \A q \in TilePixels(t) :
      AlphaAt(q) \in StoresOfDouble(
        RDiv(AggregateAt(t), Num(b.width * b.height * NO_ALPHA_CHANNELS)))

(* C13: createBlockSimilarityMask returns a picture of main's width and    *)
(* height whose pixels all have R = G = B = 0, and the main pixels one     *)
(* placement covers all carry one alpha.                                   *)
C13_BlackMaskOneScore ==
  call.op = "createBlockSimilarityMask" =>
    /\ err = "none"
    /\ out.width = a.width /\ out.height = a.height
    /\ Len(DataOf(out)) = a.width * a.height * CHANNELS
    /\ \A q \in MainPixels :
         SubSeq(PixelOf(DataOf(out), out.width, q[1], q[2]), 1, 3) = <<0, 0, 0>>
    /\ (b.width > 0 /\ b.height > 0) =>
         \A t \in TileOrigins : \A q1 \in TilePixels(t), q2 \in TilePixels(t) :
           AlphaAt(q1) = AlphaAt(q2)

(* A mask has been made in which one placement covers two main pixels and  *)
(* gave them an alpha above 0, and another placement gave another alpha.   *)
C13_Witness ==
  /\ Masked
  /\ b.width > 0 /\ b.height > 0
  /\ \E t \in TileOrigins :
       /\ Cardinality(TilePixels(t)) >= 2
       /\ \A q \in TilePixels(t) : AlphaAt(q) > 0
       /\ \E u \in TileOrigins : \E q \in TilePixels(t), r \in TilePixels(u) :
            AlphaAt(q) # AlphaAt(r)

(* C14: createBlockSimilarityMask with a block of positive width and       *)
(* height returns for every integer offset, having called itself at most   *)
(* once, and what it returns is what it returns for the offsets            *)
(* (offsetX mod block.width, offsetY mod block.height), the modulo being   *)
(* the non-negative one.                                                   *)
C14_OffsetsFolded ==
  (call.op = "createBlockSimilarityMask" /\ b.width > 0 /\ b.height > 0) =>
    /\ err = "none"
    /\ out # NoPicture
    /\ ret[1] <= 1
    /\ Reentries(b, Num(call.offsetX % b.width), Num(call.offsetY % b.height)) = 0
    /\ DataOf(out) \in
         { r.heap[r.pic.data] :
             r \in createBlockSimilarityMask(heap, a, b,
                                             Num(call.offsetX % b.width),
                                             Num(call.offsetY % b.height)) }

(* A mask has been made at a negative offset and an offset past the        *)
(* block's size, with one call of the method by itself, for a block three  *)
(* pixels wide; and it is not the mask at the offsets (0, 0).              *)
C14_Witness ==
  /\ Masked
  /\ b.width = 3
  /\ call.offsetX = -1 /\ call.offsetY > b.height
  /\ ret[1] = 1
  /\ DataOf(out) \notin
       { r.heap[r.pic.data] :
           r \in createBlockSimilarityMask(heap, a, b, Num(0), Num(0)) }

(* The placement at origin t lies inside main and covers pixels equal to   *)
(* the block's, channel for channel.                                       *)
EqualsBlockAt(t) ==
  /\ t[1] >= 0 /\ t[1] + b.width <= a.width
  /\ t[2] >= 0 /\ t[2] + b.height <= a.height
  /\ \A d \in (0..(b.width - 1)) \X (0..(b.height - 1)) :
       PixelOf(DataOf(a), a.width, t[1] + d[1], t[2] + d[2])
         = PixelOf(DataOf(b), b.width, d[1], d[2])

(* C15: after createBlockSimilarityMask, every pixel of a placement that   *)
(* lies inside main and covers pixels equal to the block's has alpha 0.    *)
C15_EqualTileScoresZero ==
  (Masked /\ b.width > 0 /\ b.height > 0) =>
    \A t \in TileOrigins :
      EqualsBlockAt(t) => \A q \in TilePixels(t) : AlphaAt(q) = 0

(* A mask has been made for a block of two different pixels of alpha above *)
(* 0: one placement covers the same two pixels and has alpha 0, and        *)
(* another placement has an alpha above 0.                                 *)
C15_Witness ==
  /\ Masked
  /\ b.width = 2 /\ b.height = 1
  /\ PixelOf(DataOf(b), b.width, 0, 0) # PixelOf(DataOf(b), b.width, 1, 0)
  /\ PixelOf(DataOf(b), b.width, 0, 0)[CHANNELS] > 0
  /\ PixelOf(DataOf(b), b.width, 1, 0)[CHANNELS] > 0
  /\ SubSeq(PixelOf(DataOf(b), b.width, 0, 0), 1, 3)
       # SubSeq(PixelOf(DataOf(b), b.width, 1, 0), 1, 3)
  /\ \E t \in TileOrigins :
       /\ EqualsBlockAt(t)
       /\ \A q \in TilePixels(t) : AlphaAt(q) = 0
  /\ \E q \in MainPixels : AlphaAt(q) > 0

---------------------------------------------------------------------------
(* What the claims about the Comparator speak of.                          *)

PixelsCompared == call.op \in {"comparePixels", "Comparator_comparePixels"}

ListsCompared ==
  call.op \in {"compareMultiplePixels", "Comparator_compareMultiplePixels"}

(* The score the called Comparator gives two pixels under the call's       *)
(* policy.                                                                 *)
PixelScore(pa, pb) ==
  IF call.op \in {"comparePixels", "compareMultiplePixels"}
  THEN comparePixels(pa, pb, call.alpha)
  ELSE Comparator_comparePixels(pa, pb, call.alpha)

(* A pixel's alpha, 255 when it has none.                                  *)
AlphaOf(p) == IF Len(p) = 4 THEN p[4] ELSE 255

(* C16: under the policies ignore, compare and subtract, comparePixels     *)
(* gives a and b the score it gives b and a; the score is the sum of the   *)
(* absolute R, G, B differences, to which compare / subtract add the       *)
(* absolute difference of the alphas, a missing alpha being 255.           *)
C16_SymmetricPolicies ==
  (PixelsCompared /\ call.alpha \in {"ignore", "compare", "subtract"}) =>
    LET pa == call.param[1]
        pb == call.param[2]
        rgb == Abs(pa[1] - pb[1]) + Abs(pa[2] - pb[2]) + Abs(pa[3] - pb[3])
    IN  /\ err = "none"
        /\ ret[1] = PixelScore(pb, pa)
        /\ ret[1] = Num(IF call.alpha = "ignore" THEN rgb
                        ELSE rgb + Abs(AlphaOf(pa) - AlphaOf(pb)))

(* A pixel without alpha has been compared under subtract with a pixel of  *)
(* another colour and of an alpha below 255.                               *)
C16_Witness ==
  /\ call.op = "comparePixels" /\ call.alpha = "subtract"
  /\ Len(call.param[1]) = 3 /\ Len(call.param[2]) = 4
  /\ call.param[2][4] \in 1..254
  /\ ret[1] = Num(255 + 255 + 128)

PixelsIn(x) ==
  IF x.typed
  THEN [i \in 1..(Len(x.items) \div 4) |-> SubSeq(x.items, 4 * i - 3, 4 * i)]
  ELSE x.items

(* The sum over the first n positions: undefinedScore where an entry is    *)
(* absent, the score of the two pixels elsewhere.                          *)
RECURSIVE PairSum(_, _, _, _)
PairSum(sa, sb, undefinedScore, n) ==
  IF n = 0 THEN Num(0)
  ELSE RAdd(PairSum(sa, sb, undefinedScore, n - 1),
            IF sa[n] = <<>> \/ sb[n] = <<>> THEN Num(undefinedScore)
            ELSE PixelScore(sa[n], sb[n]))

(* C19: compareMultiplePixels on two sequences of equal length returns the *)
(* sum over the positions of undefinedScore where either entry is absent   *)
(* and of comparePixels of the two entries elsewhere; undefinedScore is    *)
(* 765 when none is passed, and two empty sequences score 0.               *)
C19_SumOfPairs ==
  LET sa == PixelsIn(call.param[1])
      sb == PixelsIn(call.param[2])
  IN  (ListsCompared /\ Len(sa) = Len(sb)) =>
        /\ err = "none"
        /\ ret[1] = PairSum(sa, sb,
                            IF call.undefinedScore = Undefined THEN 765
                            ELSE call.undefinedScore,
                            Len(sa))
        /\ Len(sa) = 0 => ret[1] = Num(0)

(* Two lists have been compared without an undefinedScore, an entry of one *)
(* being absent where the other has a pixel, and two pixels of different   *)
(* colours standing at another position: the score is 765 and their score. *)
C19_Witness ==
  /\ call.op = "compareMultiplePixels" /\ call.alpha = "multiply"
  /\ call.undefinedScore = Undefined
  /\ call.param = <<List(<<<<>>, <<255, 0, 0, 255>>>>),
                    List(<<<<0, 255, 0, 127>>, <<0, 255, 0, 127>>>>)>>
  /\ err = "none"
  /\ ret[1] = Num(765 + 254)

(* C20: compareMultiplePixels on two sequences with different numbers of   *)
(* entries, absent entries counted, throws the length error under every    *)
(* policy and undefinedScore: no number is returned and no pair has been   *)
(* scored.                                                                 *)
C20_LengthMismatch ==
  LET sa == PixelsIn(call.param[1])
      sb == PixelsIn(call.param[2])
  IN  (ListsCompared /\ Len(sa) # Len(sb)) =>
        /\ err = "Lengths of arrays must match"
        /\ ret = <<NaN, 0>>

(* The lists of the test 'throws when array lengths missmatch' have been   *)
(* compared: five entries, the last one absent, against four.              *)
C20_Witness ==
  /\ call.op = "compareMultiplePixels"
  /\ Len(PixelsIn(call.param[1])) = 5 /\ Len(PixelsIn(call.param[2])) = 4
  /\ PixelsIn(call.param[1])[5] = <<>>
  /\ \A i \in 1..4 : PixelsIn(call.param[1])[i] = PixelsIn(call.param[2])[i]
  /\ err # "none"
  /\ ret = <<NaN, 0>>

---------------------------------------------------------------------------
(* What the claims about resize speak of.                                  *)

Resized == call.op = "resize" /\ err = "none"

(* C21: resize(source, offsetX, offsetY, newWidth, newHeight) with sizes   *)
(* that are not negative returns a Picture of newWidth x newHeight in      *)
(* which every pixel (j, i) has the four bytes of the source's pixel       *)
(* (offsetX + j, offsetY + i) when that lies inside the source and         *)
(* [0,0,0,0] otherwise; so the window (0, 0, width, height) gives the      *)
(* source's data, and (-1, 0, width + 1, height) a column of zeros         *)
(* followed by the source's columns.                                       *)
C21_ResizeWindow ==
  (call.op = "resize" /\ call.width >= 0 /\ call.height >= 0) =>
    /\ err = "none"
    /\ out.width = call.width /\ out.height = call.height
    /\ Len(DataOf(out)) = call.width * call.height * 4
    /\ \A j \in 0..(call.width - 1), i \in 0..(call.height - 1) :
         LET x == call.offsetX + j
             y == call.offsetY + i
         IN  PixelOf(DataOf(out), out.width, j, i) =
               IF x >= 0 /\ x < a.width /\ y >= 0 /\ y < a.height
               THEN PixelOf(DataOf(a), a.width, x, y)
               ELSE <<0, 0, 0, 0>>
    /\ (call.offsetX = 0 /\ call.offsetY = 0 /\ call.width = a.width
          /\ call.height = a.height) => DataOf(out) = DataOf(a)
    /\ (call.offsetX = -1 /\ call.offsetY = 0 /\ call.width = a.width + 1
          /\ call.height = a.height) =>
         \A i \in 0..(a.height - 1) :
           /\ PixelOf(DataOf(out), out.width, 0, i) = <<0, 0, 0, 0>>
           /\ \A j \in 0..(a.width - 1) :
                PixelOf(DataOf(out), out.width, j + 1, i) =
                  PixelOf(DataOf(a), a.width, j, i)

(* A window that starts before a 2x2 picture and ends past it: pixels      *)
(* copied and pixels left zero, in a picture of another size.              *)
C21_Witness ==
  /\ Resized
  /\ a.width = 2 /\ a.height = 2
  /\ call.offsetX = -1 /\ call.offsetY = 0
  /\ call.width = 3 /\ call.height = 2
  /\ PixelOf(DataOf(out), out.width, 0, 0) = <<0, 0, 0, 0>>
  /\ PixelOf(DataOf(out), out.width, 1, 1) = PixelOf(DataOf(a), a.width, 0, 1)
  /\ PixelOf(DataOf(out), out.width, 1, 1) # <<0, 0, 0, 0>>

(* C29: padding a picture p of W x H by a columns and b rows before it and *)
(* c columns and d rows after it (a, b, c, d >= 0) and cropping the result *)
(* at (a, b) to W x H gives a picture with the width, height and data of   *)
(* p.  Here b is p, a the padded picture the client went on with, and the  *)
(* last call the crop.                                                     *)
C29_PadThenCrop ==
  (/\ depth >= 1
   /\ call.op = "resize"
   /\ call.offsetX >= 0 /\ call.offsetY >= 0
   /\ call.width = b.width /\ call.height = b.height
   /\ a.width >= b.width + call.offsetX
   /\ a.height >= b.height + call.offsetY
   /\ DataOf(a) = ResizedFrom(DataOf(b), b.width, b.height,
                              -call.offsetX, -call.offsetY, a.width,
                              [n |-> 0, count |-> a.width * a.height])) =>
    /\ err = "none"
    /\ out.width = b.width /\ out.height = b.height
    /\ DataOf(out) = DataOf(b)

(* A 2x2 picture padded on all four sides and cropped back.                *)
C29_Witness ==
  /\ depth = 1 /\ Resized
  /\ b.width = 2 /\ b.height = 2
  /\ a.width = 4 /\ a.height = 4
  /\ call.offsetX = 1 /\ call.offsetY = 1
  /\ call.width = 2 /\ call.height = 2
  /\ PixelOf(DataOf(a), a.width, 0, 0) = <<0, 0, 0, 0>>
  /\ PixelOf(DataOf(a), a.width, 3, 3) = <<0, 0, 0, 0>>
  /\ PixelOf(DataOf(a), a.width, 1, 1) = PixelOf(DataOf(b), b.width, 0, 0)
  /\ DataOf(out) = DataOf(b)
  /\ out.data # b.data

---------------------------------------------------------------------------
(* What the claims about shared storage speak of.                          *)

Transforms ==
  {"convolve", "resize", "merge2", "createBlockSimilarityMask",
   "manipulateChannels", "groupColors"}

(* The step is a write of the client into array id.                        *)
Writes(id) == call.written = 0 /\ call'.written = id

(* C22: a call of convolve, resize, merge2, createBlockSimilarityMask,     *)
(* manipulateChannels or groupColors leaves the width, height and bytes of *)
(* its inputs as they were and returns a Picture whose data array is none  *)
(* of the inputs' arrays; a later write into the output's data array       *)
(* changes no byte of an input.                                            *)
C22_InputsUntouched ==
  [][/\ (call.op = "none" /\ call'.op \in Transforms) =>
          /\ a' = a /\ b' = b
          /\ heap'[a.data] = heap[a.data]
          /\ heap'[b.data] = heap[b.data]
          /\ err' = "none" =>
               /\ out'.data \notin {a.data, b.data}
               /\ out'.data \notin DOMAIN heap
     /\ (call.op \in Transforms /\ Writes(out.data)) =>
          /\ heap'[a.data] = heap[a.data]
          /\ heap'[b.data] = heap[b.data]]_vars

(* The client wrote into the data of a resize's output a byte that differs *)
(* from the input's byte at that index.                                    *)
C22_Witness ==
  /\ call.op = "resize" /\ err = "none"
  /\ call.written = out.data
  /\ out.width = a.width /\ out.height = a.height
  /\ DataOf(out)[call.x + 1] = call.y
  /\ DataOf(a)[call.x + 1] # call.y

(* C23: once a Picture is constructed, a write of the caller into the      *)
(* array it handed to the constructor, or into the data array of the       *)
(* object toObject returned, leaves the data of every Picture as it was.   *)
C23_ImmutableValue ==
  [][\A id \in {arg} \cup ObjectArrays :
       Writes(id) =>
         \A p \in {a, b, out} :
           p # NoPicture => heap'[p.data] = heap[p.data]]_vars

(* The bytes of d without every fourth.                                    *)
Stripped(d) ==
  [i \in 1..(3 * (Len(d) \div 4)) |-> d[4 * ((i - 1) \div 3) + ((i - 1) % 3) + 1]]

(* C26: toNoAlphaObject of a Picture p gives {width, height, data,         *)
(* channels: 3} with p's width and height and p's data without every       *)
(* fourth byte, which for p = new Picture(W, H, d) with d of W*H*3 bytes   *)
(* is d; and Picture.From of that object has p's width, height and data    *)
(* exactly when every alpha byte of p is 255.                              *)
C26_NoAlphaRoundTrip ==
  /\ (call.op = "toNoAlphaObject" /\ call.written = 0) =>
       /\ ret[1].width = a.width /\ ret[1].height = a.height
       /\ ret[1].channels = 3
       /\ heap[ret[1].data] = Stripped(DataOf(a))
       /\ Len(heap[arg]) = a.width * a.height * 3 => heap[ret[1].data] = heap[arg]
  /\ (call.op = "FromObject" /\ ret[1].channels = 3 /\ call.written = 0) =>
       /\ err = "none"
       /\ (/\ out.width = a.width /\ out.height = a.height
           /\ DataOf(out) = DataOf(a))
            <=> \A k \in 1..(a.width * a.height) : DataOf(a)[4 * k] = 255

(* A two-pixel Picture with a transparent pixel went through the           *)
(* alpha-less object and came back opaque.                                 *)
C26_Witness ==
  /\ call.op = "FromObject" /\ ret[1].channels = 3 /\ call.written = 0
  /\ a.width * a.height = 2
  /\ Len(heap[ret[1].data]) = 6
  /\ DataOf(a)[4] = 63
  /\ DataOf(out)[4] = 255
  /\ SubSeq(DataOf(out), 1, 3) = SubSeq(DataOf(a), 1, 3)

---------------------------------------------------------------------------
(* What the claims about the channel maps speak of.                        *)

(* Byte v is the number x saturated to 0..255 (and rounded to a nearest    *)
(* integer where x is not one).                                            *)
Saturated(v, x) ==
  IF x[1] <= 0 THEN v = 0
  ELSE IF x[1] >= 255 * x[2] THEN v = 255
  ELSE 2 * Abs(v * x[2] - x[1]) <= x[2]

(* What the client's callback returns for pixel k of a.                    *)
CallbackAt(k) ==
  pixelCallback(call.callback, call.param, SubSeq(DataOf(a), 4 * k + 1, 4 * k + 4), k)

(* C24: manipulateChannels returns a Picture of the image's dimensions in  *)
(* which, where the callback returned three channels for every pixel, each *)
(* pixel holds the three values saturated to 0..255 and alpha 255 whatever *)
(* the source alpha, and where it returned four for every pixel, the four  *)
(* values saturated.                                                       *)
C24_CallbackChannels ==
  call.op = "manipulateChannels" =>
    LET pixels == 0..(a.width * a.height - 1)
        n == IF \A k \in pixels : Len(CallbackAt(k)) = 3 THEN 3
             ELSE IF \A k \in pixels : Len(CallbackAt(k)) = 4 THEN 4 ELSE 0
    IN  n # 0 =>
          /\ err = "none"
          /\ out.width = a.width /\ out.height = a.height
          /\ Len(DataOf(out)) = Len(DataOf(a))
          /\ \A k \in pixels :
               /\ \A c \in 1..n : Saturated(DataOf(out)[4 * k + c], CallbackAt(k)[c])
               /\ n = 3 => DataOf(out)[4 * k + 4] = 255

(* Doubling with a callback of three channels: a channel above 127 is      *)
(* stored as 255, one below as its double, and a source alpha that is not  *)
(* 255 became 255.                                                         *)
C24_Witness ==
  /\ call.op = "manipulateChannels" /\ call.callback = "double3"
  /\ err = "none"
  /\ DataOf(a)[1] = 60 /\ DataOf(out)[1] = 120
  /\ DataOf(a)[2] = 195 /\ DataOf(out)[2] = 255
  /\ DataOf(a)[4] = 127 /\ DataOf(out)[4] = 255

(* C25: groupColors with ratios [1,1,1] maps every R, G, B value in 0..84  *)
(* to 0, in 85..170 to 127 and in 171..255 to 255, and with ratios [1,2,1] *)
(* 0..63 to 0, 64..191 to 127 and 192..255 to 255; the alpha bytes are the *)
(* image's.                                                                *)
C25_GroupedValues ==
  (call.op = "groupColors" /\ call.param \in {<<1, 1, 1>>, <<1, 2, 1>>}) =>
    /\ err = "none"
    /\ \A i \in 1..Len(DataOf(a)) :
         LET v == DataOf(a)[i]
             low == IF call.param = <<1, 1, 1>> THEN 84 ELSE 63
             high == IF call.param = <<1, 1, 1>> THEN 170 ELSE 191
         IN  DataOf(out)[i] =
               IF i % 4 = 0 THEN v
               ELSE IF v <= low THEN 0
               ELSE IF v <= high THEN 127
               ELSE 255

---------------------------------------------------------------------------
(* The aggregate of a placement as the claims state it: over the first n   *)
(* cells, 765 for a cell that gathered nothing and the multiply score of   *)
(* the main pixel and the block's pixel elsewhere.                         *)
RECURSIVE CellSum(_, _, _)
CellSum(channels, blockData, n) ==
  IF n = 0 THEN Num(0)
  ELSE RAdd(CellSum(channels, blockData, n - 1),
            IF channels[n] = NoPixel THEN Num(765)
            ELSE comparePixels(channels[n], SubSeq(blockData, 4 * n - 3, 4 * n),
                               "multiply"))

(* C27: for a block of positive width and height and every offset, the     *)
(* placements createBlockSimilarityMask goes through cover every pixel of  *)
(* main exactly once, so that every alpha of the mask is written once;     *)
(* every placement gathers one entry per block pixel, the main pixel where *)
(* the cell lies inside main and none where it lies outside, and each cell *)
(* outside adds 765 to the placement's aggregate score.                    *)
C27_PlacementsCoverOnce ==
  (Masked /\ b.width > 0 /\ b.height > 0) =>
    LET placements == ret[2]
        CellX(k, c) == placements[k].x + ((c - 1) % b.width)
        CellY(k, c) == placements[k].y + ((c - 1) \div b.width)
        Inside(k, c) == <<CellX(k, c), CellY(k, c)>> \in MainPixels
        WritesOf(k, q) ==
          { n \in DOMAIN placements[k].pixelIds :
              placements[k].pixelIds[n] = q[1] + q[2] * a.width }
    IN  /\ \A q \in MainPixels :
             /\ Cardinality({ k \in DOMAIN placements : WritesOf(k, q) # {} }) = 1
             /\ \A k \in DOMAIN placements : Cardinality(WritesOf(k, q)) <= 1
        /\ \A k \in DOMAIN placements :
             /\ Len(placements[k].channels) = b.width * b.height
             /\ \A c \in 1..(b.width * b.height) :
                  placements[k].channels[c] =
                    IF Inside(k, c)
                    THEN PixelOf(DataOf(a), a.width, CellX(k, c), CellY(k, c))
                    ELSE NoPixel
             /\ placements[k].aggregate =
                  CellSum(placements[k].channels, DataOf(b), b.width * b.height)
             /\ RLess(Num(765 * Cardinality({c \in 1..(b.width * b.height) :
                                               ~Inside(k, c)}) - 1),
                      placements[k].aggregate)

(* A mask of a picture of three columns with a block of two at offset 1:   *)
(* the first placement has a cell before the picture and one inside, the   *)
(* second lies inside.                                                     *)
C27_Witness ==
  /\ Masked
  /\ a.width = 3 /\ b.width = 2 /\ b.height = 1
  /\ call.offsetX = 1 /\ call.offsetY = 0
  /\ Len(ret[2]) >= 2
  /\ ret[2][1].x = -1
  /\ ret[2][1].channels[1] = NoPixel
  /\ ret[2][1].channels[2] # NoPixel
  /\ ret[2][2].channels[1] # NoPixel /\ ret[2][2].channels[2] # NoPixel
  /\ RLess(Num(764), ret[2][1].aggregate)

---------------------------------------------------------------------------
(* The score the other Comparator gives two pixels under the policy that   *)
(* corresponds to the call's (compare and subtract name one policy).       *)
OtherPixelScore(pa, pb) ==
  IF call.op = "comparePixels"
  THEN Comparator_comparePixels(pa, pb,
         IF call.alpha = "subtract" THEN "compare" ELSE call.alpha)
  ELSE comparePixels(pa, pb,
         IF call.alpha = "compare" THEN "subtract" ELSE call.alpha)

(* C28: the Comparator of src/lib/Comparator.ts and the later one give a   *)
(* pair of pixels one score under ignore and under compare / subtract, for *)
(* every pair, and under ignoreFirst and multiply for every pair of fully  *)
(* opaque pixels (alpha 255 or none); for such a pair every policy gives   *)
(* the sum of the absolute R, G, B differences.                            *)
C28_ComparatorsAgree ==
  PixelsCompared =>
    LET pa == call.param[1]
        pb == call.param[2]
    IN  /\ call.alpha \in {"ignore", "compare", "subtract"} =>
             ret[1] = OtherPixelScore(pa, pb)
        /\ (AlphaOf(pa) = 255 /\ AlphaOf(pb) = 255) =>
             /\ ret[1] = OtherPixelScore(pa, pb)
             /\ ret[1] = Num(Abs(pa[1] - pb[1]) + Abs(pa[2] - pb[2])
                               + Abs(pa[3] - pb[3]))

(* Two opaque pixels of different colours, one with its alpha and one      *)
(* without, compared under multiply by the Comparator of                   *)
(* src/lib/Comparator.ts.                                                  *)
C28_Witness ==
  /\ call.op = "Comparator_comparePixels" /\ call.alpha = "multiply"
  /\ call.param = <<<<255, 0, 0, 255>>, <<0, 255, 0>>>>
  /\ ret[1] = Num(510)
  /\ comparePixels(call.param[1], call.param[2], "multiply") = Num(510)

---------------------------------------------------------------------------
(* What the claim about two merges speaks of.                              *)

(* The pixels of a that a picture of w x h placed at (x, y) covers.        *)
Footprint(x, y, w, h) ==
  { q \in (0..(a.width - 1)) \X (0..(a.height - 1)) :
      /\ q[1] >= x /\ q[1] < x + w
      /\ q[2] >= y /\ q[2] < y + h }

FirstFootprint == Footprint(call.offsetX, call.offsetY, b.width, b.height)

SecondFootprint == Footprint(call.x, call.y, call.width, call.height)

(* C30: where the footprints of b at o1 and of c at o2 on the background a *)
(* share no pixel, a.merge2(b, o1).merge2(c, o2) and                       *)
(* a.merge2(c, o2).merge2(b, o1) have the same results, and in the result  *)
(* the pixels of each footprint are those of a result of the single merge  *)
(* onto a.                                                                 *)
C30_DisjointMergesCommute ==
  (call.op = "merge2 twice" /\ FirstFootprint \cap SecondFootprint = {}) =>
    /\ err = "none"
    /\ out.width = a.width /\ out.height = a.height
    /\ ret[1] = ret[4]
    /\ DataOf(out) \in ret[1]
    /\ \E d \in ret[2] : \A q \in FirstFootprint :
         PixelOf(DataOf(out), a.width, q[1], q[2]) = PixelOf(d, a.width, q[1], q[2])
    /\ \E d \in ret[3] : \A q \in SecondFootprint :
         PixelOf(DataOf(out), a.width, q[1], q[2]) = PixelOf(d, a.width, q[1], q[2])

(* Two merges on the white 3x3 background, the 2x2 picture at (-1, -1) and *)
(* a half transparent red pixel at (2, 2): both changed their pixel.       *)
C30_Witness ==
  /\ call.op = "merge2 twice"
  /\ a.width = 3 /\ a.height = 3
  /\ FirstFootprint = {<<0, 0>>}
  /\ SecondFootprint = {<<2, 2>>}
  /\ PixelOf(DataOf(out), 3, 0, 0) = <<0, 0, 0, 255>>
  /\ PixelOf(DataOf(out), 3, 2, 2) # PixelOf(DataOf(a), 3, 2, 2)
  /\ PixelOf(DataOf(out), 3, 1, 1) = PixelOf(DataOf(a), 3, 1, 1)

====
